---------------------------- MODULE Spec2Model ----------------------------
(***************************************************************************)
(* Streaming text-to-speech pipeline of opencode-talk                      *)
(* (src-tauri/src/tts.rs, driven by the commands of src-tauri/src/lib.rs). *)
(*                                                                         *)
(* Tasks of the model: the initialisation task spawned by run(), the       *)
(* speak_sentence command, the generation + playback worker spawned by     *)
(* init_audio_player, the stop_speaking command (clear_audio_queue, then   *)
(* stop_speaking) and the delayed reset task clear_audio_queue spawns.     *)
(* SpecSpeak adds the one-shot speak command, SpecPaths the temporary      *)
(* paths of the syntheses.                                                 *)
(* Every step is one critical section or one stretch of code between two   *)
(* await points.  Delays (the 100 ms reset, the 50 ms poll) are not        *)
(* measured: a sleeping task may resume at any later moment.               *)
(***************************************************************************)
EXTENDS Naturals, Sequences, FiniteSets

(* ------------------------------ bounds -------------------------------- *)

\* speak_sentence calls made in the runs of Spec
MaxSentences == 3
\* channel capacity used in the runs of Spec (the code's value is ChannelCapacity)
QueueCap == 2
\* stop_speaking commands issued in a run
MaxStops == 1
\* init_audio_player calls in a run of SpecReinit (run() itself makes one)
MaxInits == 2
\* speak_sentence calls made, and channel capacity used, in the runs of SpecReinit
ReinitSentences == 2
ReinitCap == 1
\* stop_speaking commands issued in a run of SpecStops
RepeatedStops == 2
\* speak commands issued in a run of SpecSpeak
MaxSpeaks == 1
\* speak_sentence calls made in the runs of SpecLoad
LoadSentences == 66
\* speak_sentence calls made in a run of SpecApp or of SpecTwoSpeaks
AppSentences == 1
\* speak commands under way at the same time in a run of SpecTwoSpeaks
ConcurrentSpeaks == 2
\* requests the transcription server answers in a run of SpecServer
MaxServed == 2
\* longest request body, in tokens, and longest "text" field of a JSON body, in characters
MaxBodyLen == 2
MaxTextLen == 1
\* callers of speak_sentence, each making call after call, and channel capacity
\* used, in the runs of SpecLocks
LockSentences == 1
LockCap == 1

(* ------------------------- program constants -------------------------- *)

\* mpsc::channel::<GenerationTask>(64)
ChannelCapacity == 64

(* -------------------------------- state ------------------------------- *)

VARIABLES
    nInits,             \* init_audio_player calls started so far
    initPc,             \* 0, or k: call k has stored its queue sender, not yet its stop sender
    GENERATION_QUEUE,   \* 0 = None, k = Some(sender of channel k)
    STOP_SIGNAL,        \* 0 = None, k = Some(sender of watch channel k)
    chan,               \* chan[k]: requests buffered in mpsc channel k, oldest first
    stopVal,            \* stopVal[k]: value held by watch channel k
    stopChanged,        \* stopChanged[k]: receiver k has not yet seen the latest send
    sendBlocked,        \* a speak_sentence call is suspended in tx.send, holding the GENERATION_QUEUE lock
    oks,                \* speak_sentence calls that returned Ok (request ids are 1..oks)
    errs,               \* speak_sentence calls that returned Err
    wpc,                \* wpc[k]: position of worker k
    cur,                \* cur[k]: request worker k holds (0 = none)
    files,              \* artifacts present on storage (by request id)
    PENDING_TEMP_FILES, \* the HashSet of pending temp files
    alive,              \* playback processes running (pid = request id)
    CURRENT_PROCESS,    \* 0 = None, p = Some(child p)
    SPAWNED_PIDS,       \* the HashSet of tracked pids
    spc,                \* spc[s]: position of stop command s
    snap,               \* snap[s]: pids_to_kill of stop command s
    resets,             \* reset tasks spawned by clear_audio_queue and still sleeping
    \* history, read only by the properties
    fate,               \* fate[r]: what has become of request r, for r in 1..oks
    hit,                \* hit[r]: "queued" / "generating" / "playing" if a stop was issued while
                        \* request r was in that phase; "queued" and "generating" are forgotten once
                        \* r has ended without a playback, "playing" once the worker is done with r
    stoppedUpTo,        \* requests 1..stoppedUpTo were accepted before the latest stop was issued
    dequeued,           \* requests in the order workers took them out of a channel
    acked,              \* acked[k]: FALSE from a send(true) on watch channel k until worker k reads
                        \* the flag as true or the flag is sent false again
    bargedIn,           \* the speak() calls whose playback process was alive when the latest stop
                        \* command was issued
    \* one-shot speech
    procLock,           \* 0, or the speak() call that holds the CURRENT_PROCESS mutex while it
                        \* waits for the child in the slot
    \* application state (lib.rs)
    is_speaking,        \* AppState.is_speaking
    lastEvent,          \* the latest "voice-state-changed" event emitted ("none" before the first)
    shutdowns,          \* shutdowns of the audio player performed so far
    \* engine adapter
    generated,          \* the generation calls of a run of SpecEngine, with their results
    \* history of the speak command
    atCall,             \* the playback processes that were running when the latest speak
                        \* command was issued
    \* transcription server
    served,             \* the requests the transcription server has answered, in order, each
                        \* with its status code and the events emitted for it
    \* the mutexes, task by task
    owner,              \* owner[m]: the task that holds the guard of mutex m, or NoTask
    lpc,                \* lpc[t]: the place task t has reached in its code
    qlen,               \* requests buffered in the generation channel
    stopOn,             \* the value held by the stop watch channel
    stopSeen,           \* the worker's receiver has seen the latest send
    inSlot,             \* the child held by CURRENT_PROCESS: "none", "afplay" or "say"
    playing,            \* the children that are running
    \* temporary paths
    pid,                \* std::process::id()
    clock,              \* SystemTime::now() since UNIX_EPOCH, in nanoseconds
    paths               \* the temporary path of every synthesis so far, in order

vars == << nInits, initPc, GENERATION_QUEUE, STOP_SIGNAL, chan, stopVal, stopChanged,
           sendBlocked, oks, errs, wpc, cur, files, PENDING_TEMP_FILES, alive,
           CURRENT_PROCESS, SPAWNED_PIDS, spc, snap, resets, fate, hit, stoppedUpTo,
           dequeued, acked, bargedIn, procLock, is_speaking, lastEvent,
           shutdowns, generated, atCall, served, owner, lpc, qlen, stopOn, stopSeen,
           inSlot, playing, pid, clock, paths >>

queueVars  == << GENERATION_QUEUE, chan, sendBlocked, oks, errs >>
stopVars   == << STOP_SIGNAL, stopVal, stopChanged >>
initVars   == << nInits, initPc >>
procVars   == << alive, CURRENT_PROCESS, SPAWNED_PIDS >>
fileVars   == << files, PENDING_TEMP_FILES >>
stopCmdVars == << spc, snap, resets, stoppedUpTo >>
pathVars   == << pid, clock, paths >>
appVars    == << is_speaking, lastEvent >>
lockData   == << qlen, stopOn, stopSeen, inSlot, playing >>
lockVars   == << owner, lpc, lockData >>
extraVars  == << atCall, served, lockVars >>
restVars   == << pathVars, shutdowns, generated, extraVars >>
sideVars   == << procLock, bargedIn, appVars, restVars >>

Workers  == 1..MaxInits
Requests == 1..oks
Stoppers == 1..MaxStops
\* the stop commands of any run
StopIds  == 1..(IF MaxStops > RepeatedStops THEN MaxStops ELSE RepeatedStops)
\* the speak commands of any run, numbered after the stop commands
SpeakIds == { Cardinality(StopIds) + i : i \in 1..MaxSpeaks }
\* the speak commands of SpecTwoSpeaks
PairIds == { Cardinality(StopIds) + i : i \in 1..ConcurrentSpeaks }
\* the commands that run stop_speaking
CommandIds == StopIds \cup SpeakIds \cup PairIds
\* the process id of the playback a speak command spawns, apart from every request id
OneShotPid(c) == LoadSentences + c

(* --------------------- tokio channels, as used ------------------------ *)

\* a channel that takes one message more than its capacity
HasRoomOffByOne(q, cap) == Len(q) <= cap

\* mpsc: Sender::send finds a free slot
HasRoom(q, cap) == Len(q) < cap

\* mpsc: Sender::send appends behind everything already buffered
Push(q, r) == Append(q, r)

\* a receiver that hands out the newest buffered message
Newest(q) == q[Len(q)]

\* mpsc: Receiver::recv / try_recv hand out the oldest buffered message
Oldest(q) == Head(q)

\* mpsc: what stays buffered after recv / try_recv
Rest(q) == Tail(q)

\* the sender of mpsc channel k was dropped when GENERATION_QUEUE was overwritten
TxDropped(k) == GENERATION_QUEUE # k

\* the sender of watch channel k was dropped when STOP_SIGNAL was overwritten
StopTxDropped(k) == STOP_SIGNAL # k

\* a worker that has been spawned and has not left its loop
Live(k) == wpc[k] \notin {"unborn", "exited"}

\* the receiver of channel k is gone: its worker has left the loop
RxDropped(k) == wpc[k] = "exited"

\* watch: Sender::send stores the value and marks it unseen for the receiver
WatchSend(k, v) ==
    /\ stopVal' = [stopVal EXCEPT ![k] = v]
    /\ stopChanged' = [stopChanged EXCEPT ![k] = TRUE]

(* ------------------------- mutexes and tasks -------------------------- *)

\* tts.rs 9-26: the five mutexes of the module
Mutexes == {"GENERATION_QUEUE", "STOP_SIGNAL", "PENDING_TEMP_FILES", "CURRENT_PROCESS",
            "SPAWNED_PIDS"}

\* the tasks that take them
InitTask   == << "init_audio_player", 0 >>
WorkerTask == << "worker", 0 >>
StopTask   == << "clear_audio_queue", 0 >>
ResetTask  == << "reset", 0 >>
SpeakTask  == << "speak", 0 >>
Enqueuers  == { << "speak_sentence", i >> : i \in 1..LockSentences }
Commands   == Enqueuers \cup {StopTask, SpeakTask}
Tasks      == {InitTask, WorkerTask, ResetTask} \cup Commands
NoTask     == << "none", 0 >>

\* no guard is held; run() has spawned the initialisation task, the worker and the
\* reset task do not exist yet, no command has been issued
InitLocks ==
    /\ owner = [m \in Mutexes |-> NoTask]
    /\ lpc = [t \in Tasks |-> IF t = InitTask THEN "i_queue"
                              ELSE IF t \in Commands THEN "idle" ELSE "off"]
    /\ qlen = 0
    /\ stopOn = FALSE
    /\ stopSeen = TRUE
    /\ inSlot = "none"
    /\ playing = {}

(* -------------------------------- Init -------------------------------- *)

InitState ==
    /\ nInits = 0
    /\ initPc = 0
    /\ GENERATION_QUEUE = 0
    /\ STOP_SIGNAL = 0
    /\ chan = [k \in Workers |-> << >>]
    /\ stopVal = [k \in Workers |-> FALSE]
    /\ stopChanged = [k \in Workers |-> FALSE]
    /\ sendBlocked = FALSE
    /\ oks = 0
    /\ errs = 0
    /\ wpc = [k \in Workers |-> "unborn"]
    /\ cur = [k \in Workers |-> 0]
    /\ files = {}
    /\ PENDING_TEMP_FILES = {}
    /\ alive = {}
    /\ CURRENT_PROCESS = 0
    /\ SPAWNED_PIDS = {}
    /\ spc = [s \in CommandIds |-> "idle"]
    /\ snap = [s \in CommandIds |-> {}]
    /\ resets = 0
    /\ fate = << >>
    /\ hit = << >>
    /\ stoppedUpTo = 0
    /\ dequeued = << >>
    /\ acked = [k \in Workers |-> TRUE]
    /\ bargedIn = {}
    /\ procLock = 0
    /\ is_speaking = FALSE
    /\ lastEvent = "none"
    /\ shutdowns = 0
    /\ generated = << >>
    /\ atCall = {}
    /\ served = << >>
    /\ InitLocks
    /\ clock = 0
    /\ paths = << >>

\* the state after construction; the process id is fixed for the run
Init == InitState /\ pid = 1

(* ------------------------- init_audio_player -------------------------- *)

\* tts.rs 39-46: create the channels, store the queue sender
InitStoreQueue(maxInits) ==
    /\ initPc = 0
    /\ nInits < maxInits
    /\ ~sendBlocked
    /\ nInits' = nInits + 1
    /\ initPc' = nInits + 1
    /\ GENERATION_QUEUE' = nInits + 1
    /\ UNCHANGED << sideVars, STOP_SIGNAL, chan, stopVal, stopChanged, sendBlocked, oks, errs,
                    wpc, cur, fileVars, procVars, stopCmdVars, fate, hit, dequeued, acked >>

\* tts.rs 47-54: store the stop sender, spawn the worker
InitStoreStop ==
    /\ initPc # 0
    /\ STOP_SIGNAL' = initPc
    /\ wpc' = [wpc EXCEPT ![initPc] = "select"]
    /\ initPc' = 0
    /\ UNCHANGED << sideVars, nInits, queueVars, stopVal, stopChanged, cur, fileVars, procVars,
                    stopCmdVars, fate, hit, dequeued, acked >>

\* lib.rs 693-696: run() spawns the one initialisation task
RunSetup == InitStoreQueue(1)

\* a further call of the public init_audio_player
Reinit == nInits >= 1 /\ InitStoreQueue(MaxInits)

(* --------------------------- speak_sentence --------------------------- *)

\* the request enters channel k as request oks + 1
Accept(k) ==
    /\ chan' = [chan EXCEPT ![k] = Push(chan[k], oks + 1)]
    /\ oks' = oks + 1
    /\ fate' = Append(fate, "queued")
    /\ hit' = Append(hit, {})

\* a call that swallows the failure: it returns Ok and the request is nowhere
RejectAsOk ==
    /\ oks' = oks + 1
    /\ fate' = Append(fate, "queued")
    /\ hit' = Append(hit, {})
    /\ UNCHANGED << chan, errs >>

\* the call returns Err and leaves the queue alone
Reject ==
    /\ errs' = errs + 1
    /\ UNCHANGED << chan, oks, fate, hit >>

\* tts.rs 209-228: lock GENERATION_QUEUE, send, return
SpeakSentence(cap, maxCalls) ==
    /\ ~sendBlocked
    /\ oks + errs < maxCalls
    /\ IF GENERATION_QUEUE = 0 \/ RxDropped(GENERATION_QUEUE)
         THEN Reject /\ UNCHANGED sendBlocked
         ELSE IF HasRoom(chan[GENERATION_QUEUE], cap)
                THEN Accept(GENERATION_QUEUE) /\ UNCHANGED << errs, sendBlocked >>
                ELSE sendBlocked' = TRUE /\ UNCHANGED << chan, oks, errs, fate, hit >>
    /\ UNCHANGED << sideVars, initVars, GENERATION_QUEUE, stopVars, wpc, cur, fileVars, procVars,
                    stopCmdVars, dequeued, acked >>

\* tts.rs 220-222: the suspended send is woken by a freed slot, or by the receiver's drop
SendResume(cap) ==
    /\ sendBlocked
    /\ HasRoom(chan[GENERATION_QUEUE], cap) \/ RxDropped(GENERATION_QUEUE)
    /\ sendBlocked' = FALSE
    /\ IF RxDropped(GENERATION_QUEUE)
         THEN Reject
         ELSE Accept(GENERATION_QUEUE) /\ UNCHANGED errs
    /\ UNCHANGED << sideVars, initVars, GENERATION_QUEUE, stopVars, wpc, cur, fileVars, procVars,
                    stopCmdVars, dequeued, acked >>

(* ------------------- the generation + playback worker ----------------- *)

\* *stop_rx.borrow(): the value, which the read does not mark as seen
Borrow(k) == stopVal[k]

\* history: worker k has now read the flag
NoteRead(k) == acked' = [acked EXCEPT ![k] = acked[k] \/ Borrow(k)]

\* stop_rx.changed() resolves: an unseen send, or (none unseen) a dropped sender
ChangedReady(k) == stopChanged[k] \/ StopTxDropped(k)

\* rx.recv() resolves: a buffered message, or (none buffered) a dropped sender
RecvReady(k) == chan[k] # << >> \/ TxDropped(k)

\* history: request r has ended as f without a playback
Ended(r, f) ==
    /\ fate' = [fate EXCEPT ![r] = f]
    /\ hit' = [hit EXCEPT ![r] = {}]

\* tts.rs 56-59: select! takes the stop branch; a true flag starts the drain
W_StopBranch(k) ==
    /\ wpc[k] = "select"
    /\ ChangedReady(k)
    /\ stopChanged[k] \/ Borrow(k)
    /\ stopChanged' = [stopChanged EXCEPT ![k] = FALSE]
    /\ wpc' = [wpc EXCEPT ![k] = IF Borrow(k) THEN "drain" ELSE "select"]
    /\ NoteRead(k)
    /\ UNCHANGED << sideVars, initVars, queueVars, STOP_SIGNAL, stopVal, cur, fileVars, procVars,
                    stopCmdVars, fate, hit, dequeued >>

\* tts.rs 61: while rx.try_recv().is_ok() {}
W_Drain(k) ==
    /\ wpc[k] = "drain"
    /\ IF chan[k] # << >>
         THEN /\ chan' = [chan EXCEPT ![k] = Rest(chan[k])]
              /\ Ended(Oldest(chan[k]), "discarded")
              /\ dequeued' = Append(dequeued, Oldest(chan[k]))
              /\ UNCHANGED wpc
         ELSE /\ wpc' = [wpc EXCEPT ![k] = "park_check"]
              /\ UNCHANGED << chan, fate, hit, dequeued >>
    /\ UNCHANGED << sideVars, initVars, GENERATION_QUEUE, sendBlocked, oks, errs, stopVars, cur, fileVars,
                    procVars, stopCmdVars, acked >>

\* a worker that goes back to select! after the drain, whatever the flag says
W_ParkCheckNoWait(k) ==
    /\ wpc[k] = "park_check"
    /\ wpc' = [wpc EXCEPT ![k] = "select"]
    /\ NoteRead(k)
    /\ UNCHANGED << sideVars, initVars, queueVars, stopVars, cur, fileVars, procVars, stopCmdVars,
                    fate, hit, dequeued >>

\* tts.rs 63: while *stop_rx.borrow()
W_ParkCheck(k) ==
    /\ wpc[k] = "park_check"
    /\ wpc' = [wpc EXCEPT ![k] = IF Borrow(k) THEN "park_wait" ELSE "select"]
    /\ NoteRead(k)
    /\ UNCHANGED << sideVars, initVars, queueVars, stopVars, cur, fileVars, procVars, stopCmdVars,
                    fate, hit, dequeued >>

\* tts.rs 64-66: stop_rx.changed().await; a dropped sender ends the worker
W_ParkWait(k) ==
    /\ wpc[k] = "park_wait"
    /\ ChangedReady(k)
    /\ IF stopChanged[k]
         THEN /\ stopChanged' = [stopChanged EXCEPT ![k] = FALSE]
              /\ wpc' = [wpc EXCEPT ![k] = "park_check"]
         ELSE /\ wpc' = [wpc EXCEPT ![k] = "exited"]
              /\ UNCHANGED stopChanged
    /\ UNCHANGED << sideVars, initVars, queueVars, STOP_SIGNAL, stopVal, cur, fileVars, procVars,
                    stopCmdVars, fate, hit, dequeued, acked >>

\* tts.rs 71-74: select! takes the recv branch; None (channel closed) ends the worker
W_Recv(k) ==
    /\ wpc[k] = "select"
    /\ RecvReady(k)
    /\ IF chan[k] # << >>
         THEN /\ chan' = [chan EXCEPT ![k] = Rest(chan[k])]
              /\ cur' = [cur EXCEPT ![k] = Oldest(chan[k])]
              /\ fate' = [fate EXCEPT ![Oldest(chan[k])] = "taken"]
              /\ dequeued' = Append(dequeued, Oldest(chan[k]))
              /\ wpc' = [wpc EXCEPT ![k] = "taken"]
         ELSE /\ wpc' = [wpc EXCEPT ![k] = "exited"]
              /\ UNCHANGED << chan, cur, fate, dequeued >>
    /\ UNCHANGED << sideVars, initVars, GENERATION_QUEUE, sendBlocked, oks, errs, stopVars, fileVars,
                    procVars, stopCmdVars, hit, acked >>

\* a worker that generates whatever the flag says
W_CheckBeforeBlind(k) ==
    /\ wpc[k] = "taken"
    /\ wpc' = [wpc EXCEPT ![k] = "generating"]
    /\ fate' = [fate EXCEPT ![cur[k]] = "generating"]
    /\ NoteRead(k)
    /\ UNCHANGED << sideVars, initVars, queueVars, stopVars, cur, fileVars, procVars, stopCmdVars,
                    hit, dequeued >>

\* tts.rs 76-79: the check before generation
W_CheckBefore(k) ==
    /\ wpc[k] = "taken"
    /\ IF Borrow(k)
         THEN /\ wpc' = [wpc EXCEPT ![k] = "select"]
              /\ cur' = [cur EXCEPT ![k] = 0]
              /\ Ended(cur[k], "discarded")
         ELSE /\ wpc' = [wpc EXCEPT ![k] = "generating"]
              /\ fate' = [fate EXCEPT ![cur[k]] = "generating"]
              /\ UNCHANGED << cur, hit >>
    /\ NoteRead(k)
    /\ UNCHANGED << sideVars, initVars, queueVars, stopVars, fileVars, procVars, stopCmdVars,
                    dequeued >>

\* a worker that registers the artifact in the pending set when generation succeeds
W_GenOkRegisters(k) ==
    /\ wpc[k] = "generating"
    /\ files' = files \cup {cur[k]}
    /\ PENDING_TEMP_FILES' = PENDING_TEMP_FILES \cup {cur[k]}
    /\ wpc' = [wpc EXCEPT ![k] = "generated"]
    /\ fate' = [fate EXCEPT ![cur[k]] = "generated"]
    /\ UNCHANGED << sideVars, initVars, queueVars, stopVars, cur, procVars,
                    stopCmdVars, hit, dequeued, acked >>

\* tts.rs 82-89, 288, 331: the adapter returns Ok(file_path); the path is not
\* inserted into PENDING_TEMP_FILES (nothing in tts.rs inserts into it)
W_GenOk(k) ==
    /\ wpc[k] = "generating"
    /\ files' = files \cup {cur[k]}
    /\ wpc' = [wpc EXCEPT ![k] = "generated"]
    /\ fate' = [fate EXCEPT ![cur[k]] = "generated"]
    /\ UNCHANGED << sideVars, initVars, queueVars, stopVars, cur, PENDING_TEMP_FILES, procVars,
                    stopCmdVars, hit, dequeued, acked >>

\* what a failed adapter run leaves at the output path it was given (tts.rs 259-286,
\* 321-329): nothing, or a file the external program had already created; none of
\* the error returns removes the path
FailedRunLeaves(r) == {{}, {r}}

\* a worker that propagates the adapter's error and ends
W_GenErrHalts(k) ==
    /\ wpc[k] = "generating"
    /\ wpc' = [wpc EXCEPT ![k] = "exited"]
    /\ cur' = [cur EXCEPT ![k] = 0]
    /\ Ended(cur[k], "genfailed")
    /\ UNCHANGED << sideVars, initVars, queueVars, stopVars, fileVars, procVars, stopCmdVars,
                    dequeued, acked >>

\* tts.rs 112-114: the adapter returns Err; it is logged and the loop goes on
W_GenErr(k) ==
    /\ wpc[k] = "generating"
    /\ \E left \in FailedRunLeaves(cur[k]) : files' = files \cup left
    /\ wpc' = [wpc EXCEPT ![k] = "select"]
    /\ cur' = [cur EXCEPT ![k] = 0]
    /\ Ended(cur[k], "genfailed")
    /\ UNCHANGED << sideVars, initVars, queueVars, stopVars, PENDING_TEMP_FILES, procVars, stopCmdVars,
                    dequeued, acked >>

\* tts.rs 90-91: the check before playing
W_CheckAfter(k) ==
    /\ wpc[k] = "generated"
    /\ wpc' = [wpc EXCEPT ![k] = IF Borrow(k) THEN "discard" ELSE "play_spawn"]
    /\ NoteRead(k)
    /\ UNCHANGED << sideVars, initVars, queueVars, stopVars, cur, fileVars, procVars, stopCmdVars,
                    fate, hit, dequeued >>

\* tts.rs 92-96: remove_file of the artifact that will not be played, pending.remove, continue
W_Discard(k) ==
    /\ wpc[k] = "discard"
    /\ files' = files \ {cur[k]}
    /\ PENDING_TEMP_FILES' = PENDING_TEMP_FILES \ {cur[k]}
    /\ wpc' = [wpc EXCEPT ![k] = "select"]
    /\ cur' = [cur EXCEPT ![k] = 0]
    /\ Ended(cur[k], "dropped")
    /\ UNCHANGED << sideVars, initVars, queueVars, stopVars, procVars, stopCmdVars, dequeued, acked >>

(* ---------------- play_audio_file_cancellable (macOS) ------------------ *)

\* tts.rs 125-130: afplay is spawned; the request's playback has started
W_PlaySpawn(k) ==
    /\ wpc[k] = "play_spawn"
    /\ alive' = alive \cup {cur[k]}
    /\ wpc' = [wpc EXCEPT ![k] = "play_pid"]
    /\ fate' = [fate EXCEPT ![cur[k]] = "playing"]
    /\ UNCHANGED << sideVars, initVars, queueVars, stopVars, cur, fileVars, CURRENT_PROCESS, SPAWNED_PIDS,
                    stopCmdVars, hit, dequeued, acked >>

\* a worker that leaves the request at the playback error, without the clean-up
W_PlaySpawnErrSkipsCleanup(k) ==
    /\ wpc[k] = "play_spawn"
    /\ wpc' = [wpc EXCEPT ![k] = "select"]
    /\ cur' = [cur EXCEPT ![k] = 0]
    /\ Ended(cur[k], "playfailed")
    /\ UNCHANGED << sideVars, initVars, queueVars, stopVars, fileVars, procVars, stopCmdVars,
                    dequeued, acked >>

\* tts.rs 130, 100-104: the spawn fails; the error is logged by the worker
W_PlaySpawnErr(k) ==
    /\ wpc[k] = "play_spawn"
    /\ wpc' = [wpc EXCEPT ![k] = "cleanup"]
    /\ Ended(cur[k], "playfailed")
    /\ UNCHANGED << sideVars, initVars, queueVars, stopVars, cur, fileVars, procVars, stopCmdVars,
                    dequeued, acked >>

\* tts.rs 133-137: pids.insert(pid)
W_PlayTrackPid(k) ==
    /\ wpc[k] = "play_pid"
    /\ SPAWNED_PIDS' = SPAWNED_PIDS \cup {cur[k]}
    /\ wpc' = [wpc EXCEPT ![k] = "play_store"]
    /\ UNCHANGED << sideVars, initVars, queueVars, stopVars, cur, fileVars, alive, CURRENT_PROCESS,
                    stopCmdVars, fate, hit, dequeued, acked >>

\* tts.rs 140-143: *process = Some(afplay), whatever the slot held
W_PlayStore(k) ==
    /\ wpc[k] = "play_store"
    /\ procLock = 0
    /\ CURRENT_PROCESS' = cur[k]
    /\ wpc' = [wpc EXCEPT ![k] = "play_poll"]
    /\ UNCHANGED << sideVars, initVars, queueVars, stopVars, cur, fileVars, alive, SPAWNED_PIDS,
                    stopCmdVars, fate, hit, dequeued, acked >>

\* tts.rs 148: the poll loop's check of the stop flag
W_PlayPoll(k) ==
    /\ wpc[k] = "play_poll"
    /\ wpc' = [wpc EXCEPT ![k] = IF Borrow(k) THEN "play_cancel" ELSE "play_wait"]
    /\ NoteRead(k)
    /\ UNCHANGED << sideVars, initVars, queueVars, stopVars, cur, fileVars, procVars, stopCmdVars,
                    fate, hit, dequeued >>

\* tts.rs 150-153: process.take() and kill of whatever child the slot holds
W_PlayCancel(k) ==
    /\ wpc[k] = "play_cancel"
    /\ procLock = 0
    /\ alive' = alive \ {CURRENT_PROCESS}
    /\ CURRENT_PROCESS' = 0
    /\ wpc' = [wpc EXCEPT ![k] = "play_cancel_pid"]
    /\ UNCHANGED << sideVars, initVars, queueVars, stopVars, cur, fileVars, SPAWNED_PIDS, stopCmdVars,
                    fate, hit, dequeued, acked >>

\* a worker that logs every Err of the playback, "cancelled" included
W_PlayCancelPidLogged(k) ==
    /\ wpc[k] = "play_cancel_pid"
    /\ SPAWNED_PIDS' = SPAWNED_PIDS \ {cur[k]}
    /\ wpc' = [wpc EXCEPT ![k] = "cleanup"]
    /\ Ended(cur[k], "playfailed")
    /\ UNCHANGED << sideVars, initVars, queueVars, stopVars, cur, fileVars, alive, CURRENT_PROCESS,
                    stopCmdVars, dequeued, acked >>

\* tts.rs 155-159: pids.remove(&pid); return Err("cancelled"), which the worker
\* does not log (tts.rs 100-104)
W_PlayCancelPid(k) ==
    /\ wpc[k] = "play_cancel_pid"
    /\ SPAWNED_PIDS' = SPAWNED_PIDS \ {cur[k]}
    /\ wpc' = [wpc EXCEPT ![k] = "cleanup"]
    /\ UNCHANGED << sideVars, initVars, queueVars, stopVars, cur, fileVars, alive, CURRENT_PROCESS,
                    stopCmdVars, fate, hit, dequeued, acked >>

\* tts.rs 162-196: try_wait on the child in the slot: finished (the slot is emptied),
\* still running (sleep 50 ms, poll again), or an empty slot ("killed externally")
W_PlayWait(k) ==
    /\ wpc[k] = "play_wait"
    /\ procLock = 0
    /\ IF CURRENT_PROCESS = 0
         THEN /\ wpc' = [wpc EXCEPT ![k] = "cleanup"]
              /\ UNCHANGED CURRENT_PROCESS
         ELSE IF CURRENT_PROCESS \in alive
                THEN /\ wpc' = [wpc EXCEPT ![k] = "play_poll"]
                     /\ UNCHANGED CURRENT_PROCESS
                ELSE /\ wpc' = [wpc EXCEPT ![k] = "play_done_pid"]
                     /\ CURRENT_PROCESS' = 0
    /\ UNCHANGED << sideVars, initVars, queueVars, stopVars, cur, fileVars, alive, SPAWNED_PIDS,
                    stopCmdVars, fate, hit, dequeued, acked >>

\* tts.rs 169-174: pids.remove(&pid); break
W_PlayDonePid(k) ==
    /\ wpc[k] = "play_done_pid"
    /\ SPAWNED_PIDS' = SPAWNED_PIDS \ {cur[k]}
    /\ wpc' = [wpc EXCEPT ![k] = "cleanup"]
    /\ UNCHANGED << sideVars, initVars, queueVars, stopVars, cur, fileVars, alive, CURRENT_PROCESS,
                    stopCmdVars, fate, hit, dequeued, acked >>

\* tts.rs 106-110: after play_audio_file_cancellable returned, Ok or Err: remove_file,
\* pending.remove; back to select!
W_Cleanup(k) ==
    /\ wpc[k] = "cleanup"
    /\ files' = files \ {cur[k]}
    /\ PENDING_TEMP_FILES' = PENDING_TEMP_FILES \ {cur[k]}
    /\ wpc' = [wpc EXCEPT ![k] = "select"]
    /\ cur' = [cur EXCEPT ![k] = 0]
    /\ fate' = [fate EXCEPT ![cur[k]] = IF fate[cur[k]] = "playing" THEN "played" ELSE fate[cur[k]]]
    /\ hit' = [hit EXCEPT ![cur[k]] = hit[cur[k]] \ {"playing"}]
    /\ UNCHANGED << sideVars, initVars, queueVars, stopVars, procVars, stopCmdVars, dequeued, acked >>

\* the afplay process p comes to its end by itself
ProcessExit(p) ==
    /\ p \in alive
    /\ alive' = alive \ {p}
    /\ UNCHANGED << sideVars, initVars, queueVars, stopVars, wpc, cur, fileVars, CURRENT_PROCESS,
                    SPAWNED_PIDS, stopCmdVars, fate, hit, dequeued, acked >>

(* ------- the stop_speaking command: clear_audio_queue, stop_speaking --- *)

Range(q) == {q[i] : i \in 1..Len(q)}

\* history: the phase request r is in when a stop sets the flag of r's worker
PhaseAtStop(r) ==
    IF STOP_SIGNAL = 0 THEN {}
    ELSE IF fate[r] = "queued" /\ r \in Range(chan[STOP_SIGNAL]) THEN {"queued"}
    ELSE IF fate[r] = "generating" /\ cur[STOP_SIGNAL] = r THEN {"generating"}
    ELSE IF fate[r] = "playing" /\ cur[STOP_SIGNAL] = r /\ r \in alive THEN {"playing"}
    ELSE {}

\* stop commands are issued one after the other
MayStart(s) == IF s = 1 THEN TRUE ELSE spc[s - 1] = "done"

\* a clear_audio_queue that returns Err when the audio player is not initialised
C_SendTrueStrict(s) ==
    /\ spc[s] = "idle"
    /\ MayStart(s)
    /\ IF STOP_SIGNAL # 0
         THEN /\ WatchSend(STOP_SIGNAL, TRUE)
              /\ acked' = [acked EXCEPT ![STOP_SIGNAL] = FALSE]
              /\ spc' = [spc EXCEPT ![s] = "c_take"]
         ELSE /\ spc' = [spc EXCEPT ![s] = "failed"]
              /\ UNCHANGED << stopVal, stopChanged, acked >>
    /\ hit' = [r \in Requests |-> hit[r] \cup PhaseAtStop(r)]
    /\ stoppedUpTo' = oks
    /\ bargedIn' = {c \in CommandIds \ StopIds : OneShotPid(c) \in alive}
    /\ UNCHANGED << procLock, appVars, restVars, initVars, queueVars, STOP_SIGNAL, wpc, cur, fileVars, procVars, snap, resets,
                    fate, dequeued >>

\* tts.rs 415-420: send(true) on the stored stop sender, if there is one
C_SendTrue(s) ==
    /\ spc[s] = "idle"
    /\ MayStart(s)
    /\ IF STOP_SIGNAL # 0
         THEN /\ WatchSend(STOP_SIGNAL, TRUE)
              /\ acked' = [acked EXCEPT ![STOP_SIGNAL] = FALSE]
         ELSE UNCHANGED << stopVal, stopChanged, acked >>
    /\ hit' = [r \in Requests |-> hit[r] \cup PhaseAtStop(r)]
    /\ stoppedUpTo' = oks
    /\ spc' = [spc EXCEPT ![s] = "c_take"]
    /\ bargedIn' = {c \in CommandIds \ StopIds : OneShotPid(c) \in alive}
    /\ UNCHANGED << procLock, appVars, restVars, initVars, queueVars, STOP_SIGNAL, wpc, cur, fileVars, procVars, snap, resets,
                    fate, dequeued >>

\* where a command is after a step of stop_speaking: the call made by
\* clear_audio_queue (tts.rs 423), the one made by the stop command (lib.rs 199)
\* or the one made by speak (tts.rs 448)
AfterTake(pc)  == CASE pc = "c_take" -> "c_snap" [] pc = "s_take" -> "s_snap" [] pc = "u_take" -> "u_snap"
AfterSnap(pc)  == CASE pc = "c_snap" -> "c_kill" [] pc = "s_snap" -> "s_kill" [] pc = "u_snap" -> "u_kill"
AfterClear(pc) == CASE pc = "c_kill" -> "c_pending" [] pc = "s_kill" -> "done" [] pc = "u_kill" -> "u_spawn"

\* tts.rs 462-466: take the child out of CURRENT_PROCESS and kill it
SS_Take(s) ==
    /\ spc[s] \in {"c_take", "s_take", "u_take"}
    /\ procLock = 0
    /\ alive' = alive \ {CURRENT_PROCESS}
    /\ CURRENT_PROCESS' = 0
    /\ spc' = [spc EXCEPT ![s] = AfterTake(spc[s])]
    /\ UNCHANGED << sideVars, initVars, queueVars, stopVars, wpc, cur, fileVars, SPAWNED_PIDS, snap, resets,
                    stoppedUpTo, fate, hit, dequeued, acked >>

\* tts.rs 469-472: copy the tracked pids
SS_Snapshot(s) ==
    /\ spc[s] \in {"c_snap", "s_snap", "u_snap"}
    /\ snap' = [snap EXCEPT ![s] = SPAWNED_PIDS]
    /\ spc' = [spc EXCEPT ![s] = AfterSnap(spc[s])]
    /\ UNCHANGED << sideVars, initVars, queueVars, stopVars, wpc, cur, fileVars, procVars, resets,
                    stoppedUpTo, fate, hit, dequeued, acked >>

\* tts.rs 474-480: kill -9 one of the copied pids
SS_Kill(s) ==
    /\ spc[s] \in {"c_kill", "s_kill", "u_kill"}
    /\ \E p \in snap[s] :
         /\ alive' = alive \ {p}
         /\ snap' = [snap EXCEPT ![s] = snap[s] \ {p}]
    /\ UNCHANGED << sideVars, initVars, queueVars, stopVars, wpc, cur, fileVars, CURRENT_PROCESS,
                    SPAWNED_PIDS, spc, resets, stoppedUpTo, fate, hit, dequeued, acked >>

\* tts.rs 483-488: pids.clear(); Ok(()); after the stop command's own call also
\* lib.rs 201-206: is_speaking = false, emit Idle, Ok(())
SS_Clear(s) ==
    /\ spc[s] \in {"c_kill", "s_kill", "u_kill"}
    /\ snap[s] = {}
    /\ SPAWNED_PIDS' = {}
    /\ spc' = [spc EXCEPT ![s] = AfterClear(spc[s])]
    /\ IF spc[s] = "s_kill"
         THEN /\ is_speaking' = FALSE
              /\ lastEvent' = "Idle"
         ELSE UNCHANGED appVars
    /\ UNCHANGED << procLock, bargedIn, restVars, initVars, queueVars, stopVars, wpc, cur, fileVars, alive, CURRENT_PROCESS,
                    snap, resets, stoppedUpTo, fate, hit, dequeued, acked >>

\* a clear_audio_queue that returns without spawning the reset task
C_DrainPendingNoReset(s) ==
    /\ spc[s] = "c_pending"
    /\ files' = files \ PENDING_TEMP_FILES
    /\ PENDING_TEMP_FILES' = {}
    /\ spc' = [spc EXCEPT ![s] = "s_take"]
    /\ UNCHANGED << sideVars, initVars, queueVars, stopVars, wpc, cur, procVars, snap, resets,
                    stoppedUpTo, fate, hit, dequeued, acked >>

\* tts.rs 426-442: delete and forget every pending temp file, spawn the reset task
C_DrainPending(s) ==
    /\ spc[s] = "c_pending"
    /\ files' = files \ PENDING_TEMP_FILES
    /\ PENDING_TEMP_FILES' = {}
    /\ resets' = resets + 1
    /\ spc' = [spc EXCEPT ![s] = "s_take"]
    /\ UNCHANGED << sideVars, initVars, queueVars, stopVars, wpc, cur, procVars, snap,
                    stoppedUpTo, fate, hit, dequeued, acked >>

\* a reset task that ends without sending false
ResetFireKeepsFlag ==
    /\ resets > 0
    /\ resets' = resets - 1
    /\ UNCHANGED << stopVal, stopChanged, acked >>
    /\ UNCHANGED << sideVars, initVars, queueVars, STOP_SIGNAL, wpc, cur, fileVars, procVars, spc, snap,
                    stoppedUpTo, fate, hit, dequeued >>

\* tts.rs 434-440: the reset task wakes from its sleep and sends false
ResetFire ==
    /\ resets > 0
    /\ resets' = resets - 1
    /\ IF STOP_SIGNAL # 0
         THEN /\ WatchSend(STOP_SIGNAL, FALSE)
              /\ acked' = [acked EXCEPT ![STOP_SIGNAL] = TRUE]
         ELSE UNCHANGED << stopVal, stopChanged, acked >>
    /\ UNCHANGED << sideVars, initVars, queueVars, STOP_SIGNAL, wpc, cur, fileVars, procVars, spc, snap,
                    stoppedUpTo, fate, hit, dequeued >>

(* --------------------------- specifications --------------------------- *)

Worker(k) ==
    \/ W_StopBranch(k) \/ W_Drain(k) \/ W_ParkCheck(k) \/ W_ParkWait(k)
    \/ W_Recv(k) \/ W_CheckBefore(k) \/ W_GenOk(k) \/ W_GenErr(k) \/ W_CheckAfter(k)
    \/ W_Discard(k)
    \/ W_PlaySpawn(k) \/ W_PlaySpawnErr(k) \/ W_PlayTrackPid(k) \/ W_PlayStore(k)
    \/ W_PlayPoll(k) \/ W_PlayCancel(k) \/ W_PlayCancelPid(k) \/ W_PlayWait(k)
    \/ W_PlayDonePid(k) \/ W_Cleanup(k)

StopCommand(s) ==
    \/ C_SendTrue(s) \/ SS_Take(s) \/ SS_Snapshot(s) \/ SS_Kill(s) \/ SS_Clear(s)
    \/ C_DrainPending(s)

Processes == \E p \in Requests : ProcessExit(p)

\* the application as run() starts it: one initialisation, any commands
Next ==
    \/ RunSetup
    \/ InitStoreStop
    \/ SpeakSentence(QueueCap, MaxSentences)
    \/ SendResume(QueueCap)
    \/ \E k \in Workers : Worker(k)
    \/ \E s \in Stoppers : StopCommand(s)
    \/ ResetFire
    \/ Processes

Spec == Init /\ [][Next]_vars


\* the scheduling of the tokio runtime: a task that can run does run; the tasks
\* are the initialisation task, the worker, a suspended send, a stop command once
\* it has started, the reset task; and a playback process comes to its end.
\* Whether and when a command is issued is up to the user.
Fairness(cap) ==
    /\ WF_vars(RunSetup)
    /\ WF_vars(InitStoreStop)
    /\ WF_vars(SendResume(cap))
    /\ \A k \in Workers : WF_vars(Worker(k))
    /\ \A s \in Stoppers :
         WF_vars(SS_Take(s) \/ SS_Snapshot(s) \/ SS_Kill(s) \/ SS_Clear(s) \/ C_DrainPending(s))
    /\ WF_vars(ResetFire)
    /\ WF_vars(Processes)

FairSpec == Spec /\ Fairness(QueueCap)

\* the scheduling of the tokio runtime alone: every task that can run does run, while
\* a playback process may go on for any length of time
TaskFairness(cap) ==
    /\ WF_vars(RunSetup)
    /\ WF_vars(InitStoreStop)
    /\ WF_vars(SendResume(cap))
    /\ \A k \in Workers : WF_vars(Worker(k))
    /\ \A s \in Stoppers :
         WF_vars(SS_Take(s) \/ SS_Snapshot(s) \/ SS_Kill(s) \/ SS_Clear(s) \/ C_DrainPending(s))
    /\ WF_vars(ResetFire)

StageSpec == Spec /\ TaskFairness(QueueCap)

\* as Spec, with further calls of init_audio_player
NextReinit ==
    \/ RunSetup
    \/ Reinit
    \/ InitStoreStop
    \/ SpeakSentence(ReinitCap, ReinitSentences)
    \/ SendResume(ReinitCap)
    \/ \E k \in Workers : Worker(k)
    \/ \E s \in Stoppers : StopCommand(s)
    \/ ResetFire
    \/ Processes

SpecReinit == Init /\ [][NextReinit]_vars

\* the initialised pipeline under load: the code's own channel capacity, no stop command, and
\* adapters and afplay that succeed; then the worker's stop-handling steps and its
\* error branches cannot be taken
LoadWorker(k) ==
    \/ W_Recv(k) \/ W_CheckBefore(k) \/ W_GenOk(k) \/ W_CheckAfter(k)
    \/ W_PlaySpawn(k) \/ W_PlayTrackPid(k) \/ W_PlayStore(k) \/ W_PlayPoll(k)
    \/ W_PlayWait(k) \/ W_PlayDonePid(k) \/ W_Cleanup(k)

\* the state run() has brought about once its initialisation task has finished
\* (tts.rs 38-54) and before any command is issued
InitLoad ==
    /\ nInits = 1
    /\ initPc = 0
    /\ GENERATION_QUEUE = 1
    /\ STOP_SIGNAL = 1
    /\ chan = [k \in Workers |-> << >>]
    /\ stopVal = [k \in Workers |-> FALSE]
    /\ stopChanged = [k \in Workers |-> FALSE]
    /\ sendBlocked = FALSE
    /\ oks = 0
    /\ errs = 0
    /\ wpc = [k \in Workers |-> IF k = 1 THEN "select" ELSE "unborn"]
    /\ cur = [k \in Workers |-> 0]
    /\ files = {}
    /\ PENDING_TEMP_FILES = {}
    /\ alive = {}
    /\ CURRENT_PROCESS = 0
    /\ SPAWNED_PIDS = {}
    /\ spc = [s \in CommandIds |-> "idle"]
    /\ snap = [s \in CommandIds |-> {}]
    /\ resets = 0
    /\ fate = << >>
    /\ hit = << >>
    /\ stoppedUpTo = 0
    /\ dequeued = << >>
    /\ acked = [k \in Workers |-> TRUE]
    /\ bargedIn = {}
    /\ procLock = 0
    /\ is_speaking = FALSE
    /\ lastEvent = "none"
    /\ shutdowns = 0
    /\ generated = << >>
    /\ atCall = {}
    /\ served = << >>
    /\ InitLocks
    /\ pid = 1
    /\ clock = 0
    /\ paths = << >>

NextLoad ==
    \/ SpeakSentence(ChannelCapacity, LoadSentences)
    \/ SendResume(ChannelCapacity)
    \/ \E k \in Workers : LoadWorker(k)
    \/ Processes

LoadFairness ==
    /\ WF_vars(SendResume(ChannelCapacity))
    /\ \A k \in Workers : WF_vars(LoadWorker(k))
    /\ WF_vars(Processes)

SpecLoad == InitLoad /\ [][NextLoad]_vars /\ LoadFairness

\* the initialised pipeline with stop commands issued one after the other
NextStops ==
    \/ SpeakSentence(ReinitCap, ReinitSentences)
    \/ SendResume(ReinitCap)
    \/ \E k \in Workers : Worker(k)
    \/ \E s \in 1..RepeatedStops : StopCommand(s)
    \/ ResetFire
    \/ Processes

SpecStops == InitLoad /\ [][NextStops]_vars

\* the scheduling of the tokio runtime for SpecStops: as Fairness, for every stop
\* command of SpecStops once it has started
StopsFairness ==
    /\ WF_vars(SendResume(ReinitCap))
    /\ \A k \in Workers : WF_vars(Worker(k))
    /\ \A s \in 1..RepeatedStops :
         WF_vars(SS_Take(s) \/ SS_Snapshot(s) \/ SS_Kill(s) \/ SS_Clear(s) \/ C_DrainPending(s))
    /\ WF_vars(ResetFire)
    /\ WF_vars(Processes)

FairStops == SpecStops /\ StopsFairness

(* ------------------------- one-shot speech ---------------------------- *)

\* lib.rs 166-183, tts.rs 446-448: the speak command starts: is_speaking = true, emit
\* Speaking; tts::speak begins with stop_speaking
U_Start(c) ==
    /\ spc[c] = "idle"
    /\ spc' = [spc EXCEPT ![c] = "u_take"]
    /\ is_speaking' = TRUE
    /\ lastEvent' = "Speaking"
    /\ atCall' = alive
    /\ UNCHANGED << procLock, bargedIn, pathVars, shutdowns, generated, served, lockVars, initVars, queueVars, stopVars, wpc, cur,
                    fileVars, procVars, snap, resets, stoppedUpTo, fate, hit, dequeued, acked >>

\* tts.rs 496-501 (558-564, 621-627, 709-715): the playback process is spawned
U_Spawn(c) ==
    /\ spc[c] = "u_spawn"
    /\ alive' = alive \cup {OneShotPid(c)}
    /\ spc' = [spc EXCEPT ![c] = "u_store"]
    /\ UNCHANGED << sideVars, initVars, queueVars, stopVars, wpc, cur, fileVars, CURRENT_PROCESS,
                    SPAWNED_PIDS, snap, resets, stoppedUpTo, fate, hit, dequeued, acked >>

\* tts.rs 450-455: the engine ids speak() dispatches on
SpeakEngines == {"macos", "piper", "kokoro", "edge"}

\* the engine ids a caller may pass, "espeak" standing for every other string
EngineIds == SpeakEngines \cup {"espeak"}

\* tts.rs 450-456: the function speak() hands the text to
SpeakTarget(engine) ==
    CASE engine = "macos"  -> "speak_macos"
      [] engine = "piper"  -> "speak_piper"
      [] engine = "kokoro" -> "speak_kokoro"
      [] engine = "edge"   -> "speak_edge"
      [] OTHER             -> "Unknown TTS engine"

\* tts.rs 455: after stop_speaking, no arm matches the engine id: return
\* Err("Unknown TTS engine: ..."); lib.rs 185-191: is_speaking = false, emit Idle
U_UnknownEngine(c) ==
    /\ spc[c] = "u_spawn"
    /\ \E engine \in EngineIds : SpeakTarget(engine) = "Unknown TTS engine"
    /\ spc' = [spc EXCEPT ![c] = "unknown"]
    /\ is_speaking' = FALSE
    /\ lastEvent' = "Idle"
    /\ UNCHANGED << procLock, bargedIn, restVars, initVars, queueVars, stopVars, wpc, cur, fileVars, procVars, snap, resets,
                    stoppedUpTo, fate, hit, dequeued, acked >>

\* tts.rs 501, 528, 551: failed synthesis or failed spawn in speak_*: return Err;
\* lib.rs 185-191: is_speaking = false, emit Idle
U_SpawnErr(c) ==
    /\ spc[c] = "u_spawn"
    /\ spc' = [spc EXCEPT ![c] = "failed"]
    /\ is_speaking' = FALSE
    /\ lastEvent' = "Idle"
    /\ UNCHANGED << procLock, bargedIn, restVars, initVars, queueVars, stopVars, wpc, cur, fileVars, procVars, snap, resets,
                    stoppedUpTo, fate, hit, dequeued, acked >>

\* tts.rs 504-507: *process = Some(cmd), whatever the slot held; the pid is not tracked
U_Store(c) ==
    /\ spc[c] = "u_store"
    /\ procLock = 0
    /\ CURRENT_PROCESS' = OneShotPid(c)
    /\ spc' = [spc EXCEPT ![c] = "u_lock"]
    /\ UNCHANGED << sideVars, initVars, queueVars, stopVars, wpc, cur, fileVars, alive, SPAWNED_PIDS,
                    snap, resets, stoppedUpTo, fate, hit, dequeued, acked >>

\* tts.rs 510-511: CURRENT_PROCESS is locked again; the guard lives until the end of
\* the function, across child.wait().await
U_Lock(c) ==
    /\ spc[c] = "u_lock"
    /\ procLock = 0
    /\ procLock' = c
    /\ spc' = [spc EXCEPT ![c] = "u_wait"]
    /\ UNCHANGED << bargedIn, appVars, restVars, initVars, queueVars, stopVars, wpc, cur, fileVars, procVars,
                    snap, resets, stoppedUpTo, fate, hit, dequeued, acked >>

\* tts.rs 511-516: wait for the child the slot holds, if any, to end; *process = None;
\* the guard is dropped; Ok(()); lib.rs 185-191: is_speaking = false, emit Idle
U_Wait(c) ==
    /\ spc[c] = "u_wait"
    /\ procLock = c
    /\ CURRENT_PROCESS \notin alive
    /\ CURRENT_PROCESS' = 0
    /\ procLock' = 0
    /\ spc' = [spc EXCEPT ![c] = "done"]
    /\ is_speaking' = FALSE
    /\ lastEvent' = "Idle"
    /\ UNCHANGED << bargedIn, restVars, initVars, queueVars, stopVars, wpc, cur, fileVars, alive,
                    SPAWNED_PIDS, snap, resets, stoppedUpTo, fate, hit, dequeued, acked >>

\* the playback process of speak command c comes to its end by itself
OneShotExit(c) ==
    /\ OneShotPid(c) \in alive
    /\ alive' = alive \ {OneShotPid(c)}
    /\ UNCHANGED << sideVars, initVars, queueVars, stopVars, wpc, cur, fileVars, CURRENT_PROCESS,
                    SPAWNED_PIDS, stopCmdVars, fate, hit, dequeued, acked >>

SpeakCommand(c) ==
    \/ U_Start(c) \/ SS_Take(c) \/ SS_Snapshot(c) \/ SS_Kill(c) \/ SS_Clear(c)
    \/ U_UnknownEngine(c)
    \/ U_Spawn(c) \/ U_SpawnErr(c) \/ U_Store(c) \/ U_Lock(c) \/ U_Wait(c)

\* the initialised application with the streaming pipeline, speak and stop commands
NextSpeak ==
    \/ SpeakSentence(ReinitCap, ReinitSentences)
    \/ SendResume(ReinitCap)
    \/ \E k \in Workers : Worker(k)
    \/ \E s \in Stoppers : StopCommand(s)
    \/ \E c \in SpeakIds : SpeakCommand(c)
    \/ \E c \in SpeakIds : OneShotExit(c)
    \/ ResetFire
    \/ Processes

SpecSpeak == InitLoad /\ [][NextSpeak]_vars

\* speak command c has started and has not returned (lib.rs 175-191)
InProgress(c) == spc[c] \notin {"idle", "done", "failed", "unknown"}

\* the initialised application with speak commands that may be issued while another
\* is under way, next to a streamed sentence; no stop command is issued, so that the worker's
\* stop-handling steps cannot be taken
NextTwoSpeaks ==
    \/ SpeakSentence(ChannelCapacity, AppSentences)
    \/ \E k \in Workers : LoadWorker(k)
    \/ Processes
    \/ \E c \in PairIds : SpeakCommand(c)
    \/ \E c \in PairIds : OneShotExit(c)

SpecTwoSpeaks == InitLoad /\ [][NextTwoSpeaks]_vars

(* ------------------ requests made after a stop returned --------------- *)

\* speak_sentence calls made in a run of SpecLate
LateSentences == 2

\* a stop command is inside its call of clear_audio_queue (lib.rs 198, tts.rs 413-443)
InClearAudioQueue(s) == spc[s] \in {"c_take", "c_snap", "c_kill", "c_pending"}

\* the user asks for a sentence only when no clear_audio_queue is under way: a
\* request made after a stop was issued is made after clear_audio_queue returned
SpeakSentenceLate ==
    /\ \A s \in Stoppers : ~InClearAudioQueue(s)
    /\ SpeakSentence(ChannelCapacity, LateSentences)

NextLate ==
    \/ RunSetup
    \/ InitStoreStop
    \/ SpeakSentenceLate
    \/ \E k \in Workers : Worker(k)
    \/ \E s \in Stoppers : StopCommand(s)
    \/ ResetFire
    \/ Processes

SpecLate == Init /\ [][NextLate]_vars

(* --------------------------- application state ------------------------ *)


\* lib.rs 9-14: enum VoiceState
VoiceStates == {"Idle", "Listening", "Processing", "Speaking"}

\* lib.rs 100-127: the set_voice_state command
SetVoiceState(v) ==
    /\ is_speaking' = (v = "Speaking")
    /\ lastEvent' = v
    /\ UNCHANGED << procLock, bargedIn, restVars, initVars, queueVars, stopVars, wpc, cur, fileVars,
                    procVars, stopCmdVars, fate, hit, dequeued, acked >>

\* the application from its start, with every command that touches is_speaking;
\* the queue has its real capacity, which AppSentences calls never fill, so
\* that no send is suspended
NextApp ==
    \/ RunSetup
    \/ InitStoreStop
    \/ SpeakSentence(ChannelCapacity, AppSentences)
    \/ \E k \in Workers : Worker(k)
    \/ \E s \in 1..RepeatedStops : StopCommand(s)
    \/ \E c \in SpeakIds : SpeakCommand(c)
    \/ \E c \in SpeakIds : OneShotExit(c)
    \/ \E v \in VoiceStates : SetVoiceState(v)
    \/ ResetFire
    \/ Processes

SpecApp == Init /\ [][NextApp]_vars

(* ------------------------------ shutdown ------------------------------ *)

\* shutdowns performed in a run of SpecShutdown
MaxShutdowns == 2

\* tts::shutdown_audio_player, which lib.rs 743 calls and tts.rs does not define; after
\* the specification's Shutdown command: stop the device, release every pending
\* (registered) artifact, terminate the worker context, whose queue goes with it
ShutdownAudioPlayer ==
    /\ alive' = {}
    /\ files' = files \ PENDING_TEMP_FILES
    /\ PENDING_TEMP_FILES' = {}
    /\ wpc' = [k \in Workers |-> IF Live(k) THEN "exited" ELSE wpc[k]]
    /\ cur' = [k \in Workers |-> 0]
    /\ chan' = [k \in Workers |-> << >>]

\* lib.rs 741-750: cleanup_all: shut the audio player down (and pkill the Kokoro server,
\* which is no part of the state)
CleanupAll ==
    /\ shutdowns < MaxShutdowns
    /\ shutdowns' = shutdowns + 1
    /\ ShutdownAudioPlayer
    /\ UNCHANGED << procLock, bargedIn, appVars, pathVars, generated, extraVars, initVars, GENERATION_QUEUE,
                    sendBlocked, oks, errs, stopVars, CURRENT_PROCESS, SPAWNED_PIDS, stopCmdVars,
                    fate, hit, dequeued, acked >>

\* the initialised application with the streaming pipeline, stop commands and exit
NextShutdown ==
    \/ SpeakSentence(ReinitCap, ReinitSentences)
    \/ SendResume(ReinitCap)
    \/ \E k \in Workers : Worker(k)
    \/ \E s \in Stoppers : StopCommand(s)
    \/ ResetFire
    \/ Processes
    \/ CleanupAll

SpecShutdown == InitLoad /\ [][NextShutdown]_vars

(* -------------------------- temporary paths --------------------------- *)

\* syntheses made in a run of SpecPaths
MaxSyntheses == 3
\* process ids a run of SpecPaths may have
MaxPid == 2
\* nanoseconds a run of SpecPaths lasts
MaxClock == 4

\* format!("/tmp/{stem}-{stamp}.{ext}") with the stamp parts joined by "-"
TempPath(stem, stamp, ext) == [dir |-> "/tmp", stem |-> stem, stamp |-> stamp, ext |-> ext]

\* tts.rs 233-239, generate_piper_audio: process id and nanosecond timestamp
StreamPiperPath(p, nanos) == TempPath("opencode-talk-piper", << p, nanos >>, "wav")

\* tts.rs 533, speak_piper: process id only
SpeakPiperPath(p) == TempPath("opencode-talk", << p >>, "wav")

\* tts.rs 652, speak_kokoro: process id only
SpeakKokoroPath(p) == TempPath("opencode-talk", << p >>, "wav")

\* tts.rs 589, speak_edge: process id only
SpeakEdgePath(p) == TempPath("opencode-talk", << p >>, "mp3")

\* tts.rs 449-455: the engines of speak() that synthesise into a temporary file
FileEngines == {"piper", "kokoro", "edge"}

\* the temporary path a one-shot request of the given engine writes, plays and removes
OneShotPath(engine, p) ==
    CASE engine = "piper"  -> SpeakPiperPath(p)
      [] engine = "kokoro" -> SpeakKokoroPath(p)
      [] engine = "edge"   -> SpeakEdgePath(p)

\* the variables no synthesis touches when it picks its path
pipelineVars == << initVars, queueVars, stopVars, wpc, cur, fileVars, procVars, stopCmdVars,
                   fate, hit, dequeued, acked, procLock, bargedIn, appVars, shutdowns,
                   generated, extraVars >>

\* time passes
Tick ==
    /\ clock < MaxClock
    /\ clock' = clock + 1
    /\ UNCHANGED << pid, paths, pipelineVars >>

\* tts.rs 232-289: one streaming synthesis; the adapter run takes time
GeneratePiperAudio ==
    /\ Len(paths) < MaxSyntheses
    /\ clock < MaxClock
    /\ paths' = Append(paths, [kind |-> "stream", path |-> StreamPiperPath(pid, clock)])
    /\ clock' = clock + 1
    /\ UNCHANGED << pid, pipelineVars >>

\* tts.rs 533 / 589 / 652: one one-shot synthesis
SpeakToFile(engine) ==
    /\ Len(paths) < MaxSyntheses
    /\ paths' = Append(paths, [kind |-> engine, path |-> OneShotPath(engine, pid)])
    /\ UNCHANGED << pid, clock, pipelineVars >>

NextPaths ==
    \/ Tick
    \/ GeneratePiperAudio
    \/ \E engine \in FileEngines : SpeakToFile(engine)

InitPaths == InitState /\ pid \in 1..MaxPid

SpecPaths == InitPaths /\ [][NextPaths]_vars

(* --------------------------- engine adapter --------------------------- *)

\* generation calls made in a run of SpecEngine
MaxGenerations == 1

\* Result<String, String> of a generation call
NoPath == TempPath("", << >>, "")
Ok(path) == [ok |-> TRUE, path |-> path, err |-> "none"]
Err(e) == [ok |-> FALSE, path |-> NoPath, err |-> e]

\* tts.rs 259-286: how a run of the piper process goes
PiperRuns == {"spawn_fails", "write_fails", "wait_fails", "exit_nonzero", "success"}

\* tts.rs 293-329: how the request to the Kokoro server goes
KokoroReplies == {"client_fails", "unreachable", "status_error", "bad_json", "no_file", "file"}

\* tts.rs 82-86: the engines a streaming request may name: any string
StreamEngines == EngineIds

\* tts.rs 326-329: the path the Kokoro server reports in result["file"]
KokoroServerPath(nanos) == TempPath("kokoro-server", << nanos >>, "wav")

\* tts.rs 232-289, generate_piper_audio
GeneratePiperResult(run, p, nanos) ==
    CASE run = "spawn_fails"  -> Err("Failed to start piper")
      [] run = "write_fails"  -> Err("Failed to write to piper")
      [] run = "wait_fails"   -> Err("Failed to wait for piper")
      [] run = "exit_nonzero" -> Err("Piper failed")
      [] run = "success"      -> Ok(StreamPiperPath(p, nanos))

\* a Kokoro adapter that reports the server's failure instead of falling back
GenerateKokoroNoFallback(reply, run, p, nanos) ==
    CASE reply = "client_fails" -> Err("Failed to create HTTP client")
      [] reply = "unreachable"  -> Err("Kokoro server unavailable")
      [] reply = "status_error" -> Err("Kokoro server returned an error status")
      [] reply = "bad_json"     -> Err("Failed to parse Kokoro response")
      [] reply = "no_file"      -> Err("Missing file path in response")
      [] reply = "file"         -> Ok(KokoroServerPath(nanos))

\* tts.rs 292-332, generate_kokoro_audio_fast
GenerateKokoroAudioFast(reply, run, p, nanos) ==
    CASE reply = "client_fails" -> Err("Failed to create HTTP client")
      [] reply = "unreachable"  -> GeneratePiperResult(run, p, nanos)
      [] reply = "status_error" -> GeneratePiperResult(run, p, nanos)
      [] reply = "bad_json"     -> Err("Failed to parse Kokoro response")
      [] reply = "no_file"      -> Err("Missing file path in response")
      [] reply = "file"         -> Ok(KokoroServerPath(nanos))

\* a worker that knows the engines of speak() only
GenerateAudioKnownOnly(engine, reply, run, p, nanos) ==
    IF engine = "piper" THEN GeneratePiperResult(run, p, nanos)
    ELSE IF engine \in SpeakEngines THEN GenerateKokoroAudioFast(reply, run, p, nanos)
    ELSE Err("Unknown TTS engine")

\* tts.rs 82-86: the worker's choice of the generation function
GenerateAudio(engine, reply, run, p, nanos) ==
    IF engine = "piper" THEN GeneratePiperResult(run, p, nanos)
    ELSE GenerateKokoroAudioFast(reply, run, p, nanos)

\* tts.rs 82-86: one generation call of the worker, with what its backends do
WorkerGenerates(engine, reply, run) ==
    /\ Len(generated) < MaxGenerations
    /\ clock < MaxClock
    /\ generated' = Append(generated, [by |-> "worker", engine |-> engine, reply |-> reply, run |-> run,
                                       at |-> clock,
                                       result |-> GenerateAudio(engine, reply, run, pid, clock)])
    /\ clock' = clock + 1
    /\ UNCHANGED << pid, paths, initVars, queueVars, stopVars, wpc, cur, fileVars, procVars, stopCmdVars,
                    fate, hit, dequeued, acked, procLock, bargedIn, appVars, shutdowns, extraVars >>

\* how the speak_* function that speak() calls goes
SpeakRuns == {"fails", "success"}

\* tts.rs 450-456: the result of speak() after its stop_speaking
SpeakResult(engine, run) ==
    IF SpeakTarget(engine) = "Unknown TTS engine" THEN Err("Unknown TTS engine")
    ELSE IF run = "success" THEN Ok(NoPath)
    ELSE Err(SpeakTarget(engine))

\* tts.rs 450-456: one call of speak(), with what the function it calls does
SpeakDispatches(engine, run) ==
    /\ Len(generated) < MaxGenerations
    /\ clock < MaxClock
    /\ generated' = Append(generated, [by |-> "speak", engine |-> engine, reply |-> "none", run |-> run,
                                       at |-> clock, result |-> SpeakResult(engine, run)])
    /\ clock' = clock + 1
    /\ UNCHANGED << pid, paths, initVars, queueVars, stopVars, wpc, cur, fileVars, procVars, stopCmdVars,
                    fate, hit, dequeued, acked, procLock, bargedIn, appVars, shutdowns, extraVars >>

NextEngine ==
    \/ Tick
    \/ \E engine \in EngineIds, run \in SpeakRuns : SpeakDispatches(engine, run)
    \/ \E engine \in StreamEngines, reply \in KokoroReplies, run \in PiperRuns :
         WorkerGenerates(engine, reply, run)

SpecEngine == InitPaths /\ [][NextEngine]_vars

(* ------------------------ transcription server ------------------------ *)

Methods == {"GET", "POST"}
Urls    == {"/transcription", "/transcription/", "/other"}

\* the characters of a transcription: white space and anything else
TextChars == {" ", "a"}
Texts == UNION { [1..n -> TextChars] : n \in 0..MaxTextLen }

\* what a body is made of: a character, or the characters of a JSON object that
\* deserialises into a TranscriptionPayload with the given text
Char(c)      == [kind |-> "char", val |-> << c >>]
Payload(t)   == [kind |-> "object", val |-> t]
BodyTokens   == { Char(c) : c \in TextChars \cup {"{"} } \cup { Payload(t) : t \in Texts }
Bodies       == UNION { [1..n -> BodyTokens] : n \in 0..MaxBodyLen }

\* a request: its body is readable (read_to_string returns Ok) or not
HttpRequests == [method : Methods, url : Urls, readable : BOOLEAN, body : Bodies]

IsSpace(tok) == tok = Char(" ")

\* str::trim: leading and trailing white space removed
RECURSIVE TrimStart(_)
TrimStart(b) ==
    IF b # << >> /\ IsSpace(Head(b)) THEN TrimStart(Tail(b)) ELSE b

RECURSIVE TrimEnd(_)
TrimEnd(b) ==
    IF b # << >> /\ IsSpace(b[Len(b)]) THEN TrimEnd(SubSeq(b, 1, Len(b) - 1)) ELSE b

Trim(b) == TrimEnd(TrimStart(b))

\* the characters of a body or of a text, objects written out by their text
RECURSIVE Written(_)
Written(b) ==
    IF b = << >> THEN << >>
    ELSE (IF Head(b).kind = "object"
          THEN << "{" >> \o Head(b).val \o << "}" >>
          ELSE Head(b).val) \o Written(Tail(b))

\* body.trim().starts_with('{')
StartsWithBrace(b) ==
    /\ Trim(b) # << >>
    /\ Head(Trim(b)).kind = "object" \/ Head(Trim(b)) = Char("{")

\* serde_json::from_str::<TranscriptionPayload>(&body): one object, white space
\* around it allowed, anything else is an error
ParsesAsPayload(b) ==
    /\ Len(Trim(b)) = 1
    /\ Trim(b)[1].kind = "object"

\* the text taken from a body
ExtractText(b) ==
    IF StartsWithBrace(b)
    THEN IF ParsesAsPayload(b) THEN Trim(b)[1].val ELSE Written(Trim(b))
    ELSE Written(Trim(b))

\* the responses made to a request, in order, and the "transcription" events emitted
\* for it (an Err of app.emit is logged and changes neither)
Respond(req) ==
    IF req.method # "POST" THEN [answers |-> << 405 >>, events |-> << >>]
    ELSE IF req.url # "/transcription" /\ req.url # "/transcription/"
         THEN [answers |-> << 404 >>, events |-> << >>]
    ELSE IF ~req.readable THEN [answers |-> << 400 >>, events |-> << >>]
    ELSE IF ExtractText(req.body) = << >> THEN [answers |-> << 400 >>, events |-> << >>]
    ELSE [answers |-> << 200 >>, events |-> << ExtractText(req.body) >>]

\* one turn of the loop over incoming_requests()
Serve(req) ==
    /\ Len(served) < MaxServed
    /\ served' = Append(served, [req |-> req, answers |-> Respond(req).answers,
                                  events |-> Respond(req).events])
    /\ UNCHANGED << initVars, queueVars, stopVars, wpc, cur, fileVars, procVars, stopCmdVars,
                    fate, hit, dequeued, acked, procLock, bargedIn, appVars, shutdowns,
                    generated, atCall, lockVars, pathVars >>

NextServer == \E req \in HttpRequests : Serve(req)

SpecServer == Init /\ [][NextServer]_vars

(* ------------------- who holds and who waits for a mutex --------------- *)

\* every variable the steps below leave alone
otherVars == << initVars, queueVars, stopVars, wpc, cur, fileVars, procVars, stopCmdVars,
                fate, hit, dequeued, acked, procLock, bargedIn, appVars, pathVars, shutdowns,
                generated, atCall, served >>

\* the mutex a task locks at a place of its code ("none": it locks nothing there)
Needs(p) ==
    CASE p \in {"i_queue", "e_queue"} -> "GENERATION_QUEUE"
      [] p \in {"i_stop", "c_stop", "r_stop"} -> "STOP_SIGNAL"
      [] p \in {"w_pending", "c_pending"} -> "PENDING_TEMP_FILES"
      [] p \in {"w_store", "w_cancel", "w_try", "s_process", "u_store", "u_lock"}
            -> "CURRENT_PROCESS"
      [] p \in {"w_pids", "w_cancel_pids", "w_done_pids", "s_pids", "s_clear"}
            -> "SPAWNED_PIDS"
      [] OTHER -> "none"

\* task t is at a lock().await and has not been given the guard
Waiting(t) == Needs(lpc[t]) # "none" /\ owner[Needs(lpc[t])] # t

\* task t is at place p and holds the guard it locks there
InCS(t, p) == lpc[t] = p /\ owner[Needs(p)] = t

\* task t drops its guards of the mutexes ms and goes on at place p
Leave(t, ms, p) ==
    /\ owner' = [m \in Mutexes |-> IF m \in ms /\ owner[m] = t THEN NoTask ELSE owner[m]]
    /\ lpc' = [lpc EXCEPT ![t] = p]

Goto(t, p) ==
    /\ lpc' = [lpc EXCEPT ![t] = p]
    /\ UNCHANGED owner

\* a lock().await returns: the mutex is free and task t is given its guard
L_Lock(t) ==
    /\ Waiting(t)
    /\ owner[Needs(lpc[t])] = NoTask
    /\ owner' = [owner EXCEPT ![Needs(lpc[t])] = t]
    /\ UNCHANGED << lpc, lockData, otherVars >>

\* init_audio_player has stored the queue sender, the stop sender
QueueStored == lpc[InitTask] # "i_queue"
StopStored  == lpc[InitTask] = "spawned"

\* tts.rs 43-46: *queue = Some(tx)
L_InitQueue ==
    /\ InCS(InitTask, "i_queue")
    /\ Leave(InitTask, {"GENERATION_QUEUE"}, "i_stop")
    /\ UNCHANGED << lockData, otherVars >>

\* tts.rs 47-54: *stop = Some(stop_tx); tokio::spawn of the worker
L_InitStop ==
    /\ InCS(InitTask, "i_stop")
    /\ owner' = [owner EXCEPT !["STOP_SIGNAL"] = NoTask]
    /\ lpc' = [lpc EXCEPT ![InitTask] = "spawned", ![WorkerTask] = "select"]
    /\ UNCHANGED << lockData, otherVars >>

\* the user issues a command
L_Issue(t) ==
    /\ lpc[t] = "idle"
    /\ Goto(t, CASE t \in Enqueuers -> "e_queue"
                 [] t = StopTask -> "c_stop"
                 [] t = SpeakTask -> "s_process")
    /\ UNCHANGED << lockData, otherVars >>

\* a speak_sentence call is suspended in tx.send with the GENERATION_QUEUE guard
SendSuspended(e) == InCS(e, "e_queue") /\ QueueStored /\ qlen >= LockCap

\* tts.rs 218-227: with the guard, Err when no sender is stored, otherwise send,
\* which completes when the channel has room; the caller may then call again
L_Send(e) ==
    /\ InCS(e, "e_queue")
    /\ IF QueueStored
         THEN /\ qlen < LockCap
              /\ qlen' = qlen + 1
         ELSE UNCHANGED qlen
    /\ Leave(e, {"GENERATION_QUEUE"}, "idle")
    /\ UNCHANGED << stopOn, stopSeen, inSlot, playing, otherVars >>

\* tts.rs 58-69: the changed() branch of select!: with the flag set, drain the
\* queue and go to wait for the reset
L_StopBranch ==
    /\ lpc[WorkerTask] = "select"
    /\ ~stopSeen
    /\ stopSeen' = TRUE
    /\ IF stopOn THEN qlen' = 0 /\ Goto(WorkerTask, "park")
                 ELSE UNCHANGED << qlen, lpc, owner >>
    /\ UNCHANGED << stopOn, inSlot, playing, otherVars >>

\* tts.rs 63-67: the wait ends when the flag is found cleared
L_Park ==
    /\ lpc[WorkerTask] = "park"
    /\ ~stopOn
    /\ Goto(WorkerTask, "select")
    /\ UNCHANGED << lockData, otherVars >>

\* tts.rs 71-77: the recv() branch and the check of the flag before generation
L_Recv ==
    /\ lpc[WorkerTask] = "select"
    /\ qlen > 0
    /\ qlen' = qlen - 1
    /\ Goto(WorkerTask, IF stopOn THEN "select" ELSE "generate")
    /\ UNCHANGED << stopOn, stopSeen, inSlot, playing, otherVars >>

\* tts.rs 81-98, 112-114: generation ends with Ok or Err; after Ok the flag is
\* checked again
L_Generate(ok) ==
    /\ lpc[WorkerTask] = "generate"
    /\ Goto(WorkerTask, IF ~ok THEN "select" ELSE IF stopOn THEN "w_pending" ELSE "spawn")
    /\ UNCHANGED << lockData, otherVars >>

\* tts.rs 125-130: afplay is spawned, or the spawn fails and the worker goes on to
\* its clean-up (106-110)
L_Spawn(ok) ==
    /\ lpc[WorkerTask] = "spawn"
    /\ playing' = IF ok THEN playing \cup {"afplay"} ELSE playing
    /\ Goto(WorkerTask, IF ok THEN "w_pids" ELSE "w_pending")
    /\ UNCHANGED << qlen, stopOn, stopSeen, inSlot, otherVars >>

\* tts.rs 134-137: pids.insert(pid)
L_TrackPid ==
    /\ InCS(WorkerTask, "w_pids")
    /\ Leave(WorkerTask, {"SPAWNED_PIDS"}, "w_store")
    /\ UNCHANGED << lockData, otherVars >>

\* tts.rs 140-143: *process = Some(afplay)
L_Store ==
    /\ InCS(WorkerTask, "w_store")
    /\ inSlot' = "afplay"
    /\ Leave(WorkerTask, {"CURRENT_PROCESS"}, "poll")
    /\ UNCHANGED << qlen, stopOn, stopSeen, playing, otherVars >>

\* tts.rs 148: the poll loop's check of the flag
L_Poll ==
    /\ lpc[WorkerTask] = "poll"
    /\ Goto(WorkerTask, IF stopOn THEN "w_cancel" ELSE "w_try")
    /\ UNCHANGED << lockData, otherVars >>

\* tts.rs 150-153: process.take() and kill; the guard is kept
L_Cancel ==
    /\ InCS(WorkerTask, "w_cancel")
    /\ playing' = playing \ {inSlot}
    /\ inSlot' = "none"
    /\ Goto(WorkerTask, "w_cancel_pids")
    /\ UNCHANGED << qlen, stopOn, stopSeen, otherVars >>

\* tts.rs 155-159: pids.remove(&pid) with both guards, which the return drops
L_CancelPids ==
    /\ InCS(WorkerTask, "w_cancel_pids")
    /\ Leave(WorkerTask, {"CURRENT_PROCESS", "SPAWNED_PIDS"}, "w_pending")
    /\ UNCHANGED << lockData, otherVars >>

\* tts.rs 162-195: try_wait on the child in the slot: no child, a running child
\* (sleep and poll again) or a finished one
L_TryWait ==
    /\ InCS(WorkerTask, "w_try")
    /\ inSlot' = IF inSlot \in playing THEN inSlot ELSE "none"
    /\ Leave(WorkerTask, {"CURRENT_PROCESS"},
             IF inSlot = "none" THEN "w_pending"
             ELSE IF inSlot \in playing THEN "poll" ELSE "w_done_pids")
    /\ UNCHANGED << qlen, stopOn, stopSeen, playing, otherVars >>

\* tts.rs 169-174: pids.remove(&pid); break
L_DonePids ==
    /\ InCS(WorkerTask, "w_done_pids")
    /\ Leave(WorkerTask, {"SPAWNED_PIDS"}, "w_pending")
    /\ UNCHANGED << lockData, otherVars >>

\* tts.rs 92-96, 107-110: pending.remove(&file_path)
L_Pending ==
    /\ InCS(WorkerTask, "w_pending")
    /\ Leave(WorkerTask, {"PENDING_TEMP_FILES"}, "select")
    /\ UNCHANGED << lockData, otherVars >>

L_Worker ==
    \/ L_StopBranch \/ L_Park \/ L_Recv
    \/ \E ok \in BOOLEAN : L_Generate(ok)
    \/ \E ok \in BOOLEAN : L_Spawn(ok)
    \/ L_TrackPid \/ L_Store \/ L_Poll \/ L_Cancel \/ L_CancelPids \/ L_TryWait
    \/ L_DonePids \/ L_Pending

\* tts.rs 415-420: tx.send(true)
L_SendStop ==
    /\ InCS(StopTask, "c_stop")
    /\ stopOn' = (StopStored \/ stopOn)
    /\ stopSeen' = (~StopStored /\ stopSeen)
    /\ Leave(StopTask, {"STOP_SIGNAL"}, "s_process")
    /\ UNCHANGED << qlen, inSlot, playing, otherVars >>

\* tts.rs 462-466: process.take() and kill, drop(process)
L_TakeProcess(t) ==
    /\ InCS(t, "s_process")
    /\ playing' = playing \ {inSlot}
    /\ inSlot' = "none"
    /\ Leave(t, {"CURRENT_PROCESS"}, "s_pids")
    /\ UNCHANGED << qlen, stopOn, stopSeen, otherVars >>

\* tts.rs 469-472: the copy of the tracked pids
L_Snapshot(t) ==
    /\ InCS(t, "s_pids")
    /\ Leave(t, {"SPAWNED_PIDS"}, "s_kill")
    /\ UNCHANGED << lockData, otherVars >>

\* tts.rs 474-480: kill -9 of the copied pids, which hold afplay's or do not
L_Kill(t) ==
    /\ lpc[t] = "s_kill"
    /\ \E killed \in SUBSET {"afplay"} : playing' = playing \ killed
    /\ Goto(t, "s_clear")
    /\ UNCHANGED << qlen, stopOn, stopSeen, inSlot, otherVars >>

\* a stop_speaking that returns with its guard of the pids
L_ClearKeepsGuard(t) ==
    /\ InCS(t, "s_clear")
    /\ Goto(t, IF t = StopTask THEN "c_pending" ELSE "u_spawn")
    /\ UNCHANGED << lockData, otherVars >>

\* tts.rs 483-488: pids.clear(); stop_speaking returns to its caller
L_Clear(t) ==
    /\ InCS(t, "s_clear")
    /\ Leave(t, {"SPAWNED_PIDS"}, IF t = StopTask THEN "c_pending" ELSE "u_spawn")
    /\ UNCHANGED << lockData, otherVars >>

StopSpeaking(t) == L_TakeProcess(t) \/ L_Snapshot(t) \/ L_Kill(t) \/ L_Clear(t)

\* tts.rs 426-442: pending.drain(); tokio::spawn of the reset task
L_DrainPending ==
    /\ InCS(StopTask, "c_pending")
    /\ owner' = [owner EXCEPT !["PENDING_TEMP_FILES"] = NoTask]
    /\ lpc' = [lpc EXCEPT ![StopTask] = "returned", ![ResetTask] = "r_stop"]
    /\ UNCHANGED << lockData, otherVars >>

\* tts.rs 435-439: after the sleep, tx.send(false)
L_Reset ==
    /\ InCS(ResetTask, "r_stop")
    /\ stopOn' = (~StopStored /\ stopOn)
    /\ stopSeen' = (~StopStored /\ stopSeen)
    /\ Leave(ResetTask, {"STOP_SIGNAL"}, "returned")
    /\ UNCHANGED << qlen, inSlot, playing, otherVars >>

\* tts.rs 496-501: say is spawned, or the spawn fails and speak returns the error
L_SpeakSpawn(ok) ==
    /\ lpc[SpeakTask] = "u_spawn"
    /\ playing' = IF ok THEN playing \cup {"say"} ELSE playing
    /\ Goto(SpeakTask, IF ok THEN "u_store" ELSE "failed")
    /\ UNCHANGED << qlen, stopOn, stopSeen, inSlot, otherVars >>

\* tts.rs 504-507: *process = Some(cmd)
L_SpeakStore ==
    /\ InCS(SpeakTask, "u_store")
    /\ inSlot' = "say"
    /\ Leave(SpeakTask, {"CURRENT_PROCESS"}, "u_lock")
    /\ UNCHANGED << qlen, stopOn, stopSeen, playing, otherVars >>

\* tts.rs 510-516: with the guard, wait for the child in the slot, then empty it
\* (speak_piper 574-578, speak_edge 637-641 and speak_kokoro 725-729 do the same)
L_SpeakWait ==
    /\ InCS(SpeakTask, "u_lock")
    /\ inSlot \notin playing
    /\ inSlot' = "none"
    /\ Leave(SpeakTask, {"CURRENT_PROCESS"}, "returned")
    /\ UNCHANGED << qlen, stopOn, stopSeen, playing, otherVars >>

L_Speak ==
    \/ StopSpeaking(SpeakTask)
    \/ \E ok \in BOOLEAN : L_SpeakSpawn(ok)
    \/ L_SpeakStore \/ L_SpeakWait

L_ClearAudioQueue == L_SendStop \/ StopSpeaking(StopTask) \/ L_DrainPending

\* a playback process comes to its end
ChildExit(p) ==
    /\ p \in playing
    /\ playing' = playing \ {p}
    /\ UNCHANGED << owner, lpc, qlen, stopOn, stopSeen, inSlot, otherVars >>

NextLocks ==
    \/ \E t \in Commands : L_Issue(t)
    \/ \E t \in Tasks : L_Lock(t)
    \/ L_InitQueue \/ L_InitStop
    \/ L_Worker
    \/ \E e \in Enqueuers : L_Send(e)
    \/ L_ClearAudioQueue
    \/ L_Reset
    \/ L_Speak
    \/ \E p \in {"afplay", "say"} : ChildExit(p)

SpecLocks == Init /\ [][NextLocks]_vars

\* the scheduling of the tokio runtime: a task that can run does run, and a playback
\* process comes to its end; whether and when a command is issued is up to the user
LocksFairness ==
    /\ WF_vars(L_Lock(InitTask) \/ L_InitQueue \/ L_InitStop)
    /\ WF_vars(L_Lock(WorkerTask) \/ L_Worker)
    /\ \A e \in Enqueuers : WF_vars(L_Lock(e) \/ L_Send(e))
    /\ WF_vars(L_Lock(StopTask) \/ L_ClearAudioQueue)
    /\ WF_vars(L_Lock(ResetTask) \/ L_Reset)
    /\ WF_vars(L_Lock(SpeakTask) \/ L_Speak)
    /\ WF_vars(\E p \in {"afplay", "say"} : ChildExit(p))

FairLocks == SpecLocks /\ LocksFairness

(* ------------------------------ properties --------------------------- *)

\* request r has had its playback started
Played(r) == fate[r] \in {"playing", "played"}

\* request r has come to its end: played to the end of its playback, or failed
Finished(r) ==
    \/ fate[r] \in {"genfailed", "playfailed"}
    \/ fate[r] = "played" /\ r \notin alive

\* C1: among requests accepted with no stop issued since (request i was accepted
\* after the latest stop was issued), playback starts in the order of acceptance:
\* while the playback of request j is running or has run, every earlier such
\* request i has been played to its end or has failed.
C1_FifoPlayback ==
    \A i \in Requests : \A j \in Requests :
        (i < j /\ i > stoppedUpTo /\ Played(j)) => Finished(i)

\* C2: a request whose generation was running when a stop set the flag never has
\* its playback started.
C2_StopDuringGeneration ==
    \A r \in Requests : "generating" \in hit[r] => ~Played(r)

\* C3: a request that was waiting in the queue when a stop set the flag never has
\* its playback started.
C3_StopDiscardsQueued ==
    \A r \in Requests : "queued" \in hit[r] => ~Played(r)

\* queue empty, worker idle, no playback process alive, no command under way
Quiescent ==
    /\ \A k \in Workers : chan[k] = << >> /\ wpc[k] \in {"unborn", "select", "exited"}
    /\ alive = {}
    /\ ~sendBlocked
    /\ \A s \in StopIds : spc[s] \in {"idle", "done"}
    /\ resets = 0

\* C4: once the pipeline is quiescent the pending-temp-file set is empty and no
\* artifact file of a generation call is left on storage.
C4_CleanAtQuiescence ==
    Quiescent => (PENDING_TEMP_FILES = {} /\ files = {})

\* C5: the stop flag goes from true to false only after the worker has read the
\* true value of that stop.
C5_ResetAfterObserved ==
    [][\A k \in Workers : (stopVal[k] /\ ~stopVal'[k]) => acked[k]]_vars

\* C7: at most one generation call of the streaming pipeline is in progress,
\* also after init_audio_player has been called more than once.
C7_SingleGeneration ==
    Cardinality({k \in Workers : wpc[k] = "generating"}) <= 1

\* request r is accepted and still waits in a channel
IsQueued(r) == r <= oks /\ fate[r] = "queued"

\* the generation of request r has been started
GenerationStarted(r) ==
    r <= oks /\ fate[r] \in {"generating", "generated", "playing", "played", "genfailed",
                             "playfailed", "dropped"}

\* a stop command has been issued
StopIssued == \E s \in StopIds : spc[s] # "idle"

\* C6: a generation failure never halts the pipeline: no worker ends, nothing of a
\* failed request is registered or played, and after the failure of request r the
\* waiting request r + 1 has its generation started unless a stop is issued.
C6_FailureDoesNotHalt ==
    /\ [](\A k \in Workers : wpc[k] # "exited")
    /\ [](\A r \in Requests :
            fate[r] = "genfailed" =>
                /\ r \notin PENDING_TEMP_FILES
                /\ r \notin alive
                /\ r \notin SPAWNED_PIDS
                /\ r # CURRENT_PROCESS)
    /\ \A r \in 1..(MaxSentences - 1) :
            (r < oks /\ fate[r] = "genfailed" /\ IsQueued(r + 1))
                ~> (GenerationStarted(r + 1) \/ StopIssued)

\* C6: request 1 has failed in generation and request 2 is being generated
C6_Witness ==
    oks >= 2 /\ fate[1] = "genfailed" /\ fate[2] = "generating" /\ ~StopIssued

\* the channel speak_sentence sends into
TheQueue == chan[GENERATION_QUEUE]

RECURSIVE AllBuffered(_)
AllBuffered(k) == IF k = 0 THEN << >> ELSE AllBuffered(k - 1) \o chan[k]

Iota(n) == [i \in 1..n |-> i]

\* C9: the requests taken out so far, followed by those still buffered, are the
\* accepted requests, each once and in the order of acceptance; and no accepted
\* request is left waiting forever.
C9_ExactlyOnceInOrder ==
    /\ [](dequeued \o AllBuffered(MaxInits) = Iota(oks))
    /\ \A r \in 1..MaxSentences : IsQueued(r) ~> ~IsQueued(r)

\* C9: three requests were accepted, two are taken out and the third still waits
C9_Witness == oks = 3 /\ Len(dequeued) = 2 /\ TheQueue = << 3 >>

\* C10: a call returns Err only when no sender is stored or the receiver is gone, and
\* then the queue is unchanged; in every other state a call does not return Err:
\* it returns Ok with its request appended to the queue, or waits for a free slot.
C10_ErrIffUnusable ==
    [][/\ (errs' # errs) =>
            /\ GENERATION_QUEUE = 0 \/ RxDropped(GENERATION_QUEUE)
            /\ errs' = errs + 1
            /\ UNCHANGED << chan, oks, sendBlocked >>
       /\ (oks' # oks) =>
            /\ GENERATION_QUEUE # 0
            /\ ~RxDropped(GENERATION_QUEUE)
            /\ oks' = oks + 1
            /\ chan' = [chan EXCEPT ![GENERATION_QUEUE] = Append(TheQueue, oks')]
       /\ (sendBlocked' /\ ~sendBlocked) => GENERATION_QUEUE # 0]_vars

\* C10: one call was made before the sender was stored and one after
C10_Witness == errs >= 1 /\ oks >= 1 /\ fate[1] = "queued"

\* C11: a further call of init_audio_player changes nothing: the stored queue
\* sender and stop sender are still those of the first call and there is one
\* live worker.
C11_InitIdempotent ==
    /\ GENERATION_QUEUE \in {0, 1}
    /\ STOP_SIGNAL \in {0, 1}
    /\ Cardinality({k \in Workers : Live(k)}) <= 1

\* C12: a stop issued while the flag is still true is absorbed: it schedules no
\* further reset (no two reset tasks are ever pending), and when the flag goes
\* from true to false no reset task of a later stop is left pending.
C12_StopIdempotent ==
    /\ [](resets <= 1)
    /\ [][\A k \in Workers : (stopVal[k] /\ ~stopVal'[k]) => resets' = 0]_vars

\* C13: when the flag is true at the worker's check before generation, the
\* request is discarded and the worker goes back to select! with no generation
\* call made; when it is false the generation starts. No discarded request ever
\* has an artifact.
C13_PreGenerationCheck ==
    /\ [][\A k \in Workers :
            (wpc[k] = "taken" /\ wpc'[k] # "taken") =>
                IF stopVal[k]
                  THEN /\ wpc'[k] = "select"
                       /\ fate'[cur[k]] = "discarded"
                       /\ files' = files
                  ELSE wpc'[k] = "generating"]_vars
    /\ [](\A r \in Requests : fate[r] = "discarded" => r \notin files)

\* C13: request 1 was discarded at the check before generation: the flag is true
\* and the worker, back in select!, has not yet taken the stop branch
C13_Witness ==
    /\ oks >= 1 /\ fate[1] = "discarded"
    /\ wpc[1] = "select" /\ stopVal[1] /\ stopChanged[1]

\* C14: the worker never spawns a playback process at a moment when the flag is true.
C14_NoSpawnWhileStopped ==
    [][\A k \in Workers :
        (wpc[k] = "play_spawn" /\ wpc'[k] = "play_pid") => ~stopVal[k]]_vars

\* C15: when a stop was issued while request r was playing, the worker does not get
\* past its next poll of the flag with r's playback process alive; and once the
\* worker is done with a request its process is dead and its artifact deleted.
C15_KilledByNextPoll ==
    /\ [][\A k \in Workers :
            (wpc[k] = "play_poll" /\ wpc'[k] = "play_wait" /\ "playing" \in hit[cur[k]])
                => cur[k] \notin alive]_vars
    /\ [](\A r \in Requests : fate[r] = "played" => (r \notin alive /\ r \notin files))

\* a generation call has returned the artifact of request r
Produced(r) ==
    r <= oks /\ fate[r] \in {"generated", "playing", "played", "playfailed", "dropped"}

\* C16: every artifact a generation call has returned and that is not yet deleted
\* is a member of PENDING_TEMP_FILES.
C16_PendingSetInvariant ==
    \A r \in Requests : (Produced(r) /\ r \in files) => r \in PENDING_TEMP_FILES

\* worker k is at one of its two remove_file calls
Deleting(k) == wpc[k] \in {"discard", "cleanup"}

C18_UniqueTempPaths ==
    \A i, j \in 1..Len(paths) : i # j => paths[i].path # paths[j].path

C19_BargeInOneShot ==
    /\ \A s \in Stoppers : spc[s] \in {"c_take", "s_take"} => procLock \notin bargedIn
    /\ \A s \in Stoppers : spc[s] = "done" => \A c \in bargedIn : OneShotPid(c) \notin alive

(* C20: speak() stops any current activity before speaking.  From the end  *)
(* of its stop step until it returns, no playback process other than its   *)
(* own is alive; at most one playback process is alive at any time.        *)
Speaking(c) == spc[c] \in {"u_spawn", "u_store", "u_lock", "u_wait"}

C20_SpeakStopsFirst ==
    /\ \A c \in SpeakIds : Speaking(c) => alive \subseteq {OneShotPid(c)}
    /\ Cardinality(alive) <= 1

(* C21: speak() returns only after the playback process it spawned has    *)
(* exited: a speak command that has returned has no live playback process  *)
(* of its own, whoever else wrote the CURRENT_PROCESS slot meanwhile.      *)
C21_SpeakReturnsAfterExit ==
    \A c \in SpeakIds : spc[c] = "done" => OneShotPid(c) \notin alive

(* C22: locking discipline.  No task is suspended while it holds one of    *)
(* the module's mutexes: no speak_sentence call waits in tx.send with the  *)
(* GENERATION_QUEUE guard, no speak() call waits for a child with the      *)
(* CURRENT_PROCESS guard.                                                  *)
C22_NoLockAcrossSuspension ==
    /\ ~sendBlocked
    /\ procLock = 0

(* C23: backend fallback.  When the engine of a streaming request is not   *)
(* Piper and the Kokoro server is unreachable or answers with an error     *)
(* status, the generation call returns what Piper generation returns for   *)
(* the same request: Ok with Piper's artifact when the piper run succeeds, *)
(* and otherwise Piper's error, never an error of the Kokoro request.      *)
KokoroDown(g) == g.engine # "piper" /\ g.reply \in {"unreachable", "status_error"}

Held(r) == \E k \in Workers : cur[k] = r

C24_PlaybackFailureDropsRequest ==
    /\ [](\A r \in Requests : (fate[r] = "playfailed" /\ ~Held(r)) => r \notin files)
    /\ [](\A k \in Workers : wpc[k] # "exited")
    /\ [][\A k \in Workers :
            (cur[k] # 0 /\ fate[cur[k]] = "playfailed" /\ wpc'[k] # wpc[k]) =>
                /\ cur[k] \in files
                /\ cur[k] \notin files'
                /\ wpc'[k] = "select"
                /\ cur'[k] = 0]_vars
    /\ \A r \in 1..(MaxSentences - 1) :
            (r < oks /\ fate[r] = "playfailed" /\ IsQueued(r + 1))
                ~> (GenerationStarted(r + 1) \/ StopIssued)

C24_Witness ==
    oks >= 2 /\ fate[1] = "playfailed" /\ 1 \notin files /\ fate[2] = "generating" /\ ~StopIssued

(* C25: generation and playback are two concurrent stages.  While the     *)
(* artifact of request r is playing and request r + 1 waits in the queue,  *)
(* the generation of r + 1 gets under way without waiting for the playback *)
(* of r to end: it is in progress while r still plays, unless the playback *)
(* ends first or a stop is issued.                                         *)
Playing(r) == r <= oks /\ fate[r] = "playing" /\ r \in alive

Overlap(r) == Playing(r) /\ \E k \in Workers : wpc[k] = "generating" /\ cur[k] > r

C25_ConcurrentStages ==
    \A r \in 1..(MaxSentences - 1) :
        (Playing(r) /\ IsQueued(r + 1)) ~> (Overlap(r) \/ ~Playing(r) \/ StopIssued)

(* C26: application shutdown.  Once cleanup_all has shut the audio player  *)
(* down, no playback process is alive, no artifact file remains, no worker *)
(* is running, and no request is accepted or processed any more.           *)
Artifact(r) == r <= oks /\ fate[r] # "genfailed" /\ r \in files

C26_ShutdownReleasesAll ==
    /\ [](shutdowns >= 1 =>
            /\ alive = {}
            /\ \A r \in Requests : ~Artifact(r)
            /\ \A k \in Workers : ~Live(k))
    /\ [][shutdowns >= 1 => (fate' = fate /\ dequeued' = dequeued)]_vars

(* C27: shutdown is idempotent.  A second shutdown changes nothing, and    *)
(* after it no playback process, no artifact file and no queued request is *)
(* left behind.                                                            *)
C27_ShutdownIdempotent ==
    /\ [][(shutdowns >= 1 /\ shutdowns' # shutdowns) =>
            UNCHANGED << initVars, queueVars, stopVars, wpc, cur, fileVars, procVars, stopCmdVars,
                         fate, hit, dequeued, acked, appVars >>]_vars
    /\ [](shutdowns >= 2 =>
            /\ alive = {}
            /\ \A r \in Requests : ~Artifact(r)
            /\ \A k \in Workers : chan[k] = << >>)

(* C28: cancellation is silent.  The stop command never returns an error,  *)
(* whatever the state it is issued in (pipeline not initialised, idle,     *)
(* generating, playing, another stop just done), and the step that         *)
(* completes it leaves is_speaking false with an Idle event emitted.       *)
C28_StopIsSilent ==
    /\ [](\A s \in StopIds : spc[s] # "failed")
    /\ [][\A s \in StopIds :
            (spc[s] # "done" /\ spc'[s] = "done") => (~is_speaking' /\ lastEvent' = "Idle")]_vars

C28_Witness ==
    /\ spc[1] = "done"
    /\ STOP_SIGNAL = 0
    /\ ~is_speaking
    /\ lastEvent = "Idle"
    /\ \E c \in SpeakIds : spc[c] \in {"u_lock", "u_wait"}

\* request r was accepted after the last stop was issued
Late(r) == StopIssued /\ r > stoppedUpTo

(* C29: the delay-based reset admits a lost request.  A request accepted   *)
(* after clear_audio_queue returned, with no stop issued since, can be     *)
(* discarded by the check before generation, and whenever that happens the *)
(* reset task of that stop is still pending: the flag has not been reset.  *)
C29_LateRequestLostToPendingReset ==
    [][\A r \in Requests :
         (Late(r) /\ fate[r] = "taken" /\ fate'[r] = "discarded") => resets > 0]_vars

\* the worker is back at its select with the flag still set, so that the late
\* request was discarded by the check before generation, not by the drain
C29_Witness ==
    \E r \in Requests :
       /\ Late(r)
       /\ fate[r] = "discarded"
       /\ resets > 0
       /\ \E k \in Workers : wpc[k] = "select" /\ stopVal[k] /\ dequeued # << >> /\ dequeued[Len(dequeued)] = r

(* C30: a playback that ends because of a stop is never reported as an   *)
(* error.  Once the playback of a request has started, no step of the      *)
(* worker records a playback error for it: neither after the worker saw    *)
(* the flag and returned "cancelled", nor after it found the slot emptied  *)
(* by stop_speaking.                                                       *)
C30_StoppedPlaybackIsNoError ==
    [][\A r \in Requests : fate[r] = "playing" => fate'[r] \in {"playing", "played"}]_vars

\* the worker left the poll loop by the empty slot (its pid is still tracked) for a
\* request that the stop hit while it was playing
C30_Witness ==
    \E k \in Workers :
       /\ wpc[k] = "cleanup"
       /\ cur[k] # 0
       /\ "playing" \in hit[cur[k]]
       /\ fate[cur[k]] = "playing"
       /\ CURRENT_PROCESS = 0
       /\ cur[k] \in SPAWNED_PIDS

\* worker k is in the loop that waits for the flag to be cleared (tts.rs 63-67)
Parked(k) == wpc[k] \in {"park_check", "park_wait"}

\* request r waits in the queue of a parked worker, no stop issued since it was accepted
WaitsParked(r) ==
    /\ r <= oks
    /\ Late(r)
    /\ \E k \in Workers : Parked(k) /\ r \in Range(chan[k])

(* C31: the worker that takes the stop branch with the flag set leaves the *)
(* drain only with an empty queue, and while it is parked it takes nothing *)
(* out of its queue: the queue only grows at its end.  A request that      *)
(* waits in the queue of the parked worker is generated later on, unless a *)
(* further stop is issued; and requests leave the queue in the order of    *)
(* their acceptance.                                                       *)
C31_DrainParkResume ==
    /\ [][\A k \in Workers :
            /\ (wpc[k] = "drain" /\ wpc'[k] # "drain") => (chan[k] = << >> /\ Parked(k)')
            /\ Parked(k) =>
                  /\ Len(chan'[k]) >= Len(chan[k])
                  /\ SubSeq(chan'[k], 1, Len(chan[k])) = chan[k]]_vars
    /\ [](\A i, j \in 1..Len(dequeued) : i < j => dequeued[i] < dequeued[j])
    /\ \A r \in 1..MaxSentences :
          WaitsParked(r) ~> (\/ r <= oks /\ fate[r] \notin {"queued", "taken", "discarded"}
                            \/ ~Late(r))

\* the drain discarded a request, and a later one waits in the queue of the parked worker
C31_Witness ==
    \E r \in Requests :
       /\ WaitsParked(r)
       /\ \E q \in 1..stoppedUpTo : fate[q] = "discarded"

(* C32: the stop flag never stays set forever.  On the initialised        *)
(* pipeline, with stop commands issued one after the other and the         *)
(* runtime's fairness, a set flag is cleared later on, a cleared flag is   *)
(* set only by the first step of a stop command, and a parked worker gets  *)
(* back to its select!.                                                    *)
C32_FlagIsReset ==
    /\ \A k \in Workers : stopVal[k] ~> ~stopVal[k]
    /\ [][\A k \in Workers :
            (~stopVal[k] /\ stopVal'[k]) => \E s \in StopIds : spc[s] = "idle" /\ spc'[s] = "c_take"]_vars
    /\ \A k \in Workers : Parked(k) ~> (wpc[k] = "select")

\* two stops are over, the flag is cleared, and a request accepted after the last
\* stop was played by the worker that the first stop had parked
C32_Witness ==
    /\ \A s \in 1..RepeatedStops : spc[s] = "done"
    /\ resets = 0
    /\ ~stopVal[1]
    /\ wpc[1] = "select"
    /\ \E q \in 1..stoppedUpTo : fate[q] = "discarded"
    /\ \E r \in Requests : Late(r) /\ fate[r] = "played"

(* C34: the streaming worker deletes an artifact only after the playback  *)
(* process it spawned for it has exited or been killed: the clean-up step  *)
(* of a worker is never taken while the process of its request is alive.   *)
C34_DeleteAfterPlaybackEnded ==
    [][\A k \in Workers :
         (wpc[k] = "cleanup" /\ wpc'[k] # "cleanup") => cur[k] \notin alive]_vars

\* stop_speaking, called by command s, takes its last step: pids.clear() (tts.rs 483-486)
ClearsPids(s) == spc[s] \in {"c_kill", "s_kill", "u_kill"} /\ spc'[s] # spc[s]

(* C35: stop_speaking kills every process whose pid it removes from        *)
(* SPAWNED_PIDS, whatever the worker inserts meanwhile: every pid that     *)
(* pids.clear() removes belongs to a process that is no longer alive; and  *)
(* when the stop_speaking called by clear_audio_queue has returned, no     *)
(* playback that was running when the stop command began is alive.         *)
C35_StopKillsWhatItRemoves ==
    /\ [][\A s \in CommandIds : ClearsPids(s) => SPAWNED_PIDS \cap alive = {}]_vars
    /\ [](\A s \in Stoppers : spc[s] = "c_pending" =>
             \A r \in Requests : "playing" \in hit[r] => r \notin alive)

\* speak command c returns the "Unknown TTS engine" error in this step
ReturnsUnknown(c) == spc[c] # "unknown" /\ spc'[c] = "unknown"

(* C37: speak() with an engine id it does not know returns the "Unknown    *)
(* TTS engine" error without spawning a process, and only after its        *)
(* stop_speaking has run: every playback that was running when the command *)
(* was issued has been killed by then.                                     *)
C37_UnknownEngineStopsFirst ==
    [][\A c \in SpeakIds :
         ReturnsUnknown(c) =>
            /\ spc[c] = "u_spawn"
            /\ alive' = alive
            /\ atCall \cap alive = {}]_vars

(* C36: the streaming worker never rejects a request because of its       *)
(* engine id: "piper" is generated with Piper, every other id, known to    *)
(* speak() or not, through the Kokoro server path with its Piper fallback; *)
(* the one-shot speak() returns the unknown-engine error for exactly the   *)
(* ids other than "macos", "piper", "kokoro" and "edge".                   *)
C36_EngineDispatch ==
    \A i \in 1..Len(generated) :
        LET g == generated[i] IN
        /\ g.by = "worker" =>
              /\ g.engine = "piper" => g.result = GeneratePiperResult(g.run, pid, g.at)
              /\ g.engine # "piper" => g.result = GenerateKokoroAudioFast(g.reply, g.run, pid, g.at)
              /\ g.result.err # "Unknown TTS engine"
        /\ g.by = "speak" =>
              (g.result.err = "Unknown TTS engine" <=> g.engine \notin {"macos", "piper", "kokoro", "edge"})

\* the worker generated a request whose engine id speak() does not know
C36_Witness ==
    \E i \in 1..Len(generated) :
        /\ generated[i].by = "worker"
        /\ generated[i].engine \notin {"macos", "piper", "kokoro", "edge"}
        /\ generated[i].reply = "file"
        /\ generated[i].result = Ok(KokoroServerPath(generated[i].at))

(* C38: is_speaking is true whenever a speak command is in progress,       *)
(* whatever other speak commands and stop commands run at the same time.   *)
C38_SpeakingWhileInProgress ==
    \A c \in PairIds : InProgress(c) => is_speaking

\* the text a request carries: the "text" field of a JSON body, the body otherwise
TextOf(req) ==
    IF ParsesAsPayload(req.body) THEN Trim(req.body)[1].val ELSE Written(req.body)

IsBlank(t) == \A i \in 1..Len(t) : t[i] = " "

OnTranscriptionPath(req) ==
    req.method = "POST" /\ req.url \in {"/transcription", "/transcription/"}

\* C39: every request is answered exactly once and an event is emitted only with a
\* 200 answer: a request that is not a POST gets 405, a POST to another path 404,
\* an unreadable body or a text that is empty after trimming 400, and a POST to the
\* transcription path with a text that is not empty gets one event and 200; the
\* server serves the next request after every outcome.
C39_ServerAnswers ==
    /\ \A i \in 1..Len(served) :
         LET req == served[i].req
             ans == served[i].answers
             evs == served[i].events
         IN /\ Len(ans) = 1
            /\ evs # << >> => ans = << 200 >>
            /\ req.method # "POST" => ans = << 405 >>
            /\ req.method = "POST" /\ ~OnTranscriptionPath(req) => ans = << 404 >>
            /\ OnTranscriptionPath(req) /\ (~req.readable \/ IsBlank(TextOf(req)))
                   => ans = << 400 >> /\ evs = << >>
            /\ OnTranscriptionPath(req) /\ req.readable /\ ~IsBlank(TextOf(req))
                   => ans = << 200 >> /\ Len(evs) = 1
    /\ Len(served) < MaxServed => \A req \in HttpRequests : ENABLED Serve(req)

\* the tasks of X all wait for a mutex whose guard a task of X holds
WaitInCircle(X) == \A t \in X : Waiting(t) /\ owner[Needs(lpc[t])] \in X

\* C33: in no reachable state does a set of tasks wait in a circle, each for a mutex
\* held by another task of the set, and a speak_sentence call suspended on a full
\* queue is eventually released: no call stays in send for ever, and a suspended call
\* leaves send only by returning with its request queued.
C33_DeadlockFree ==
    /\ [](\A X \in SUBSET Tasks : X # {} => ~WaitInCircle(X))
    /\ [][\A e \in Enqueuers : SendSuspended(e) /\ owner'["GENERATION_QUEUE"] # e
                                  => qlen' = qlen + 1 /\ lpc'[e] = "idle"]_vars
    /\ []<>(\A e \in Enqueuers : ~InCS(e, "e_queue"))

\* C33: the worker, cancelling with the CURRENT_PROCESS guard, waits for SPAWNED_PIDS
\* while another task waits for CURRENT_PROCESS, and a speak_sentence call is suspended
\* on the full queue
C33_Witness ==
    /\ owner["CURRENT_PROCESS"] = WorkerTask
    /\ Waiting(WorkerTask) /\ owner["SPAWNED_PIDS"] \notin {NoTask, WorkerTask}
    /\ \E t \in Tasks : Waiting(t) /\ Needs(lpc[t]) = "CURRENT_PROCESS"
    /\ \E e \in Enqueuers : SendSuspended(e)

=============================================================================
